---- MODULE Spec2Model ----
(***************************************************************************)
(* Model of the datafeed engine of laoxiaoqiang/backtrader:                *)
(*   datafeed_engine/database.py  DatabaseManager (the Series Store)       *)
(*   datafeed_engine/engine.py    DataFeedEngine  (sync runs, query API)   *)
(*   datafeed_engine/fetchers.py  OKX / Binance fetch_data (pagination)    *)
(*                                                                         *)
(* The table market_data is a bag of rows (the columns id and created_at   *)
(* are never read by any operation and are left out; a bag keeps two rows  *)
(* with equal columns apart, so the UNIQUE constraint is something the     *)
(* model has to enforce, as INSERT OR IGNORE does).                        *)
(* A datetime is [ms, us]: whole milliseconds since the epoch plus the     *)
(* microseconds below the millisecond (0..999).                            *)
(* An Optional argument is a set: {} is None, {v} is the value v.          *)
(* One caller issues one call at a time: `call` holds the operation, its   *)
(* arguments, what it returned and the table it started from (`before`),   *)
(* until the caller takes the result.                                      *)
(* The scheduler is modelled statement by statement: start_scheduler and   *)
(* stop_scheduler run on the caller's thread, _run_scheduler on background *)
(* threads, and their steps interleave.                                    *)
(***************************************************************************)
EXTENDS Integers, Sequences, FiniteSets, Bags, TLC

VARIABLES table, call, running, scheduler_thread, jobs, threads, main

\* the scheduler's part of the state: self.running, self.scheduler_thread,
\* the jobs of the `schedule` module, the background threads that were
\* started, and where the caller of start_scheduler / stop_scheduler stands
sched == <<running, scheduler_thread, jobs, threads, main>>

vars == <<table, call, running, scheduler_thread, jobs, threads, main>>

\* ------------------------------------------------------------------ bounds
\* most rows a DataFrame handed to save_data has
MaxBatch == 2
\* most rows the table holds (calls that would exceed it are not issued)
MaxRows == 3
\* how many times in a row the same save_data or fetch_crypto_data call is
\* issued (a retry)
MaxAttempts == 2
\* the largest `limit` fetch_data is called with directly
MaxPage == 3
\* how many background threads start_scheduler starts in all
MaxThreads == 2

\* ------------------------------------------------------------------ inputs
None == {}

Dt(ms, us) == [ms |-> ms, us |-> us]

\* SeriesKeys that differ from the first in exactly one component
SeriesKeys ==
    { [symbol |-> "BTC/USDT", exchange |-> "okx",     timeframe |-> "1m"],
      [symbol |-> "ETH/USDT", exchange |-> "okx",     timeframe |-> "1m"],
      [symbol |-> "BTC/USDT", exchange |-> "binance", timeframe |-> "1m"],
      [symbol |-> "BTC/USDT", exchange |-> "okx",     timeframe |-> "5m"] }

Exchanges == {k.exchange : k \in SeriesKeys}
\* index values of a DataFrame (pandas Timestamps): two of them fall into
\* the same millisecond
IndexValues == {Dt(0, 0), Dt(60000, 0), Dt(60000, 500)}

\* open/high/low/close/volume of a candle
V1 == [open |-> 100, high |-> 105, low |-> 99,  close |-> 104, volume |-> 1000]
V2 == [open |-> 101, high |-> 106, low |-> 100, close |-> 105, volume |-> 1100]
Ohlcv == {V1, V2}

\* what stands for a value that is no number: NaN in a DataFrame (NULL once
\* bound to a statement of sqlite3), and in an upstream payload a text that
\* is no number and a field that is missing (None)
NotANumber == 0 - 2000000001
NonNumeric == 0 - 2000000002
Missing == 0 - 2000000003

\* pd.to_numeric(value, errors='coerce')
to_numeric(v) == IF v \in {NonNumeric, Missing} THEN NotANumber ELSE v

FrameRow(idx, v) ==
    [index |-> idx, open |-> v.open, high |-> v.high, low |-> v.low,
     close |-> v.close, volume |-> v.volume]

\* the rows a DataFrame is made of: the candle at 0 ms, the candle at 60000 ms,
\* and a row half a millisecond later that carries other values
FrameRows ==
    {FrameRow(idx, v) : idx \in IndexValues, v \in Ohlcv} \
        {FrameRow(Dt(0, 0), V2), FrameRow(Dt(60000, 0), V2),
         FrameRow(Dt(60000, 500), V1)}

\* the DataFrames handed to save_data
DataFrames == UNION {[1..n -> FrameRows] : n \in 0..MaxBatch}

\* start_time / end_time / limit arguments of DatabaseManager.get_data
TimeBounds == {None, {0}, {60000}}
\* start_time / end_time arguments of DataFeedEngine.get_data (datetimes)
DateBounds == {None, {Dt(60000, 0)}, {Dt(60000, 500)}}

\* the SeriesKeys sync runs are made for, the wall-clock times they run at
\* (just after the epoch, and a day later) and their lookbacks in days
SyncKeys == {k \in SeriesKeys : k.timeframe = "1m"}
Clock == {Dt(120000, 0), Dt(86520000, 500)}
Lookbacks == {1, 2}

\* ------------------------------------------------------------------ helpers
Max(S) == CHOOSE x \in S : \A y \in S : y <= x

Min2(a, b) == IF a <= b THEN a ELSE b

\* Python truthiness of an Optional str (`if symbol:`): None and "" are false
TruthyStr(opt) == opt # {} /\ opt # {""}

\* Python truthiness of an Optional int (`if latest_timestamp:`): None and 0
\* are false
TruthyInt(opt) == opt # {} /\ opt # {0}

TheValue(opt) == CHOOSE x \in opt : TRUE

\* int(timestamp.timestamp() * 1000): int() truncates toward zero
TimestampMs(dt) == IF dt.ms < 0 /\ dt.us > 0 THEN dt.ms + 1 ELSE dt.ms

\* pd.to_datetime(ms, unit='ms') and datetime.fromtimestamp(ms / 1000)
FromMs(ms) == Dt(ms, 0)

\* ------------------------------------------------------------------ store
NaturalKey(r) == <<r.symbol, r.exchange, r.timeframe, r.timestamp>>

Rows(tbl) == BagToSet(tbl)

\* (mutant) WHERE symbol = ? AND exchange = ?
SeriesRowsAnyTimeframe(tbl, symbol, exchange, timeframe) ==
    {r \in BagToSet(tbl) : r.symbol = symbol /\ r.exchange = exchange}

\* WHERE symbol = ? AND exchange = ? AND timeframe = ?
SeriesRows(tbl, symbol, exchange, timeframe) ==
    {r \in Rows(tbl) : r.symbol = symbol /\ r.exchange = exchange
                       /\ r.timeframe = timeframe}

\* the sub-bag of the rows in S
SubTable(tbl, S) == [r \in S |-> tbl[r]]

\* one element of data_to_insert
Record(frow, symbol, exchange, timeframe) ==
    [symbol |-> symbol, exchange |-> exchange, timeframe |-> timeframe,
     timestamp |-> TimestampMs(frow.index),
     open |-> frow.open, high |-> frow.high, low |-> frow.low,
     close |-> frow.close, volume |-> frow.volume]

\* (mutant) a plain INSERT into a table without the UNIQUE constraint
InsertPlain(tbl, record) ==
    [table |-> tbl (+) SetToBag({record}), rowcount |-> 1]

\* (mutant) INSERT OR REPLACE: the stored row gives way to the new one
InsertOrReplace(tbl, record) ==
    LET kept == {r \in BagToSet(tbl) : NaturalKey(r) # NaturalKey(record)}
    IN [table |-> [r \in kept |-> tbl[r]] (+) SetToBag({record}), rowcount |-> 1]

\* INSERT OR IGNORE under UNIQUE(symbol, exchange, timeframe, timestamp)
\* (mutant) the columns open .. volume without NOT NULL
InsertOrIgnoreNullable(tbl, record) ==
    IF \E r \in Rows(tbl) : NaturalKey(r) = NaturalKey(record)
    THEN [table |-> tbl, rowcount |-> 0]
    ELSE [table |-> tbl (+) SetToBag({record}), rowcount |-> 1]

InsertOrIgnore(tbl, record) ==
    IF \/ \E r \in Rows(tbl) : NaturalKey(r) = NaturalKey(record)
       \/ NotANumber \in {record.open, record.high, record.low, record.close,
                           record.volume}
    THEN [table |-> tbl, rowcount |-> 0]
    ELSE [table |-> tbl (+) SetToBag({record}), rowcount |-> 1]

\* (mutant) insert_count counts every record, ignored or not
RECURSIVE CountEveryRecord(_, _, _, _)
CountEveryRecord(tbl, records, i, insert_count) ==
    IF i > Len(records)
    THEN [table |-> tbl, ret |-> insert_count]
    ELSE CountEveryRecord(InsertOrIgnore(tbl, records[i]).table, records, i + 1,
                          insert_count + 1)

\* the loop `for record in data_to_insert` from record i on: the records are
\* inserted one after the other in list order (evaluated half by half to
\* keep the evaluation shallow for long lists: the first half of what is
\* left is inserted, its count is read, then the second half follows)
RECURSIVE InsertRecords(_, _, _, _)
InsertRecords(tbl, records, i, insert_count) ==
    IF i > Len(records)
    THEN [table |-> tbl, ret |-> insert_count]
    ELSE IF i = Len(records)
    THEN LET res == InsertOrIgnore(tbl, records[i])
         IN [table |-> res.table,
             ret |-> insert_count + (IF res.rowcount > 0 THEN 1 ELSE 0)]
    ELSE LET mid == (i + Len(records)) \div 2
             first == InsertRecords(tbl, SubSeq(records, 1, mid), i, insert_count)
         IN IF first.ret >= insert_count
            THEN InsertRecords(first.table, records, mid + 1, first.ret)
            ELSE first

\* (mutant) save_data returns len(data) instead of the insert count
save_data_returns_len(tbl, data, symbol, exchange, timeframe) ==
    LET data_to_insert ==
            [i \in 1..Len(data) |-> Record(data[i], symbol, exchange, timeframe)]
    IN [table |-> InsertRecords(tbl, data_to_insert, 1, 0).table, ret |-> Len(data)]

\* save_data when cursor.execute raises sqlite3.Error for the records
\* numbered in `failing`: the handler prints and the loop goes on, so the
\* loop does what it does for the other records alone
save_data_failing(tbl, data, symbol, exchange, timeframe, failing) ==
    IF data = <<>>
    THEN [table |-> tbl, ret |-> 0]
    ELSE LET numbered == [i \in 1..Len(data) |->
                             [i |-> i,
                              record |-> Record(data[i], symbol, exchange, timeframe)]]
             Executed(n) == n.i \notin failing
             executed == SelectSeq(numbered, Executed)
         IN InsertRecords(tbl, [i \in 1..Len(executed) |-> executed[i].record], 1, 0)

save_data(tbl, data, symbol, exchange, timeframe) ==
    IF data = <<>>
    THEN [table |-> tbl, ret |-> 0]
    ELSE LET data_to_insert ==
                [i \in 1..Len(data) |-> Record(data[i], symbol, exchange, timeframe)]
         IN InsertRecords(tbl, data_to_insert, 1, 0)

\* (mutant) ORDER BY timestamp DESC
RECURSIVE OrderByTimestampDesc(_)
OrderByTimestampDesc(tbl) ==
    IF BagToSet(tbl) = {}
    THEN <<>>
    ELSE LET r == CHOOSE r \in BagToSet(tbl) :
                     \A q \in BagToSet(tbl) : r.timestamp >= q.timestamp
         IN <<r>> \o OrderByTimestampDesc(tbl (-) SetToBag({r}))

\* ORDER BY timestamp
RECURSIVE OrderByTimestamp(_)
OrderByTimestamp(tbl) ==
    IF Rows(tbl) = {}
    THEN <<>>
    ELSE LET r == CHOOSE r \in Rows(tbl) :
                     \A q \in Rows(tbl) : r.timestamp <= q.timestamp
         IN <<r>> \o OrderByTimestamp(tbl (-) SetToBag({r}))

\* SELECT timestamp, open, high, low, close, volume; timestamp becomes the index
Selected(r) ==
    [index |-> FromMs(r.timestamp), open |-> r.open, high |-> r.high,
     low |-> r.low, close |-> r.close, volume |-> r.volume]

\* (mutant) `if start_time:` / `if end_time:` instead of `is not None`
get_data_truthy_bounds(tbl, symbol, exchange, timeframe, start_time, end_time, limit) ==
    LET matching == {r \in SeriesRows(tbl, symbol, exchange, timeframe) :
                        /\ (TruthyInt(start_time) => r.timestamp >= TheValue(start_time))
                        /\ (TruthyInt(end_time) => r.timestamp <= TheValue(end_time))}
        ordered == OrderByTimestamp(SubTable(tbl, matching))
        limited == IF limit # None /\ TheValue(limit) >= 0
                   THEN SubSeq(ordered, 1, Min2(TheValue(limit), Len(ordered)))
                   ELSE ordered
    IN [i \in 1..Len(limited) |-> Selected(limited[i])]

get_data(tbl, symbol, exchange, timeframe, start_time, end_time, limit) ==
    LET matching == {r \in SeriesRows(tbl, symbol, exchange, timeframe) :
                        /\ (start_time # None => r.timestamp >= TheValue(start_time))
                        /\ (end_time # None => r.timestamp <= TheValue(end_time))}
        ordered == OrderByTimestamp(SubTable(tbl, matching))
        limited == IF limit # None /\ TheValue(limit) >= 0
                   THEN SubSeq(ordered, 1, Min2(TheValue(limit), Len(ordered)))
                   ELSE ordered
    IN [i \in 1..Len(limited) |-> Selected(limited[i])]

\* (mutant) `result[0] if result[0] else None`
get_latest_timestamp_truthy(tbl, symbol, exchange, timeframe) ==
    LET stamps == {r.timestamp : r \in SeriesRows(tbl, symbol, exchange, timeframe)}
    IN IF stamps = {} \/ Max(stamps) = 0 THEN None ELSE {Max(stamps)}

get_latest_timestamp(tbl, symbol, exchange, timeframe) ==
    LET stamps == {r.timestamp : r \in SeriesRows(tbl, symbol, exchange, timeframe)}
    IN IF stamps = {} THEN None ELSE {Max(stamps)}

\* (mutant) the conditions joined with OR instead of AND
clear_data_or(tbl, symbol, exchange, timeframe) ==
    LET any == TruthyStr(symbol) \/ TruthyStr(exchange) \/ TruthyStr(timeframe)
        deleted == {r \in Rows(tbl) :
                       any => \/ (TruthyStr(symbol) /\ r.symbol = TheValue(symbol))
                              \/ (TruthyStr(exchange) /\ r.exchange = TheValue(exchange))
                              \/ (TruthyStr(timeframe) /\ r.timeframe = TheValue(timeframe))}
    IN [table |-> SubTable(tbl, Rows(tbl) \ deleted),
        ret |-> BagCardinality(SubTable(tbl, deleted))]

clear_data(tbl, symbol, exchange, timeframe) ==
    LET deleted == {r \in Rows(tbl) :
                       /\ (TruthyStr(symbol) => r.symbol = TheValue(symbol))
                       /\ (TruthyStr(exchange) => r.exchange = TheValue(exchange))
                       /\ (TruthyStr(timeframe) => r.timeframe = TheValue(timeframe))}
    IN [table |-> SubTable(tbl, Rows(tbl) \ deleted),
        ret |-> BagCardinality(SubTable(tbl, deleted))]

\* ------------------------------------------------------------------ time
\* (mutant) a timeframe that is not in the table counts as an hour
_get_timeframe_delta_default_hour(timeframe) ==
    CASE timeframe = "1m"  -> 60000
      [] timeframe = "5m"  -> 300000
      [] timeframe = "15m" -> 900000
      [] timeframe = "30m" -> 1800000
      [] timeframe = "1h"  -> 3600000
      [] timeframe = "2h"  -> 7200000
      [] timeframe = "1d"  -> 86400000
      [] OTHER -> 3600000

\* DataFeedEngine._get_timeframe_delta, as milliseconds
_get_timeframe_delta(timeframe) ==
    CASE timeframe = "1m"  -> 60000
      [] timeframe = "5m"  -> 300000
      [] timeframe = "15m" -> 900000
      [] timeframe = "30m" -> 1800000
      [] timeframe = "1h"  -> 3600000
      [] timeframe = "2h"  -> 7200000
      [] timeframe = "1d"  -> 86400000
      [] OTHER -> 60000

\* OKXDataFetcher._get_timeframe_ms (BinanceDataFetcher's is the same table)
_get_timeframe_ms(timeframe) ==
    CASE timeframe = "1m"  -> 60 * 1000
      [] timeframe = "5m"  -> 5 * 60 * 1000
      [] timeframe = "15m" -> 15 * 60 * 1000
      [] timeframe = "30m" -> 30 * 60 * 1000
      [] timeframe = "1h"  -> 60 * 60 * 1000
      [] timeframe = "2h"  -> 2 * 60 * 60 * 1000
      [] timeframe = "1d"  -> 24 * 60 * 60 * 1000
      [] OTHER -> 60 * 1000

\* BinanceDataFetcher._get_timeframe_ms
Binance_get_timeframe_ms(timeframe) ==
    CASE timeframe = "1m"  -> 60 * 1000
      [] timeframe = "5m"  -> 5 * 60 * 1000
      [] timeframe = "15m" -> 15 * 60 * 1000
      [] timeframe = "30m" -> 30 * 60 * 1000
      [] timeframe = "1h"  -> 60 * 60 * 1000
      [] timeframe = "2h"  -> 2 * 60 * 60 * 1000
      [] timeframe = "1d"  -> 24 * 60 * 60 * 1000
      [] OTHER -> 60 * 1000

\* timedelta(days=days), as milliseconds
DaysMs(days) == days * 24 * 60 * 60 * 1000

\* datetime + timedelta of whole milliseconds
DtPlus(dt, ms) == Dt(dt.ms + ms, dt.us)

\* datetime >= datetime
DtGeq(a, b) == a.ms > b.ms \/ (a.ms = b.ms /\ a.us >= b.us)

\* ------------------------------------------------------------------ upstream
\* the index of the newest candle the exchange holds for a symbol: three
\* candles for BTC/USDT, a long history for SOL/USDT, none for ETH/USDT
UpstreamLast(symbol) ==
    CASE symbol = "BTC/USDT" -> 2
      [] symbol = "SOL/USDT" -> 217
      [] symbol = "000001.SZ" -> 2
      [] symbol = "DOGE/USDT" -> 3
      [] symbol = "XRP/USDT" -> 2
      [] OTHER -> 0 - 1

\* the values of the n-th candle the exchange holds for a symbol: the second
\* DOGE/USDT candle carries a volume that is no number and the fourth lacks
\* its close, the second XRP/USDT candle carries a negative volume
Payload(symbol, n) ==
    CASE symbol = "DOGE/USDT" /\ n = 2 -> [V1 EXCEPT !.volume = NonNumeric]
      [] symbol = "DOGE/USDT" /\ n = 4 -> [V1 EXCEPT !.close = Missing]
      [] symbol = "XRP/USDT" /\ n = 2 -> [V1 EXCEPT !.volume = 0 - 5]
      [] OTHER -> V1

\* the candles the exchange holds for a symbol and timeframe, oldest first:
\* one per timeframe duration from the epoch on
Listed(symbol, timeframe) ==
    [n \in 1..(UpstreamLast(symbol) + 1) |->
        [timestamp |-> (n - 1) * _get_timeframe_ms(timeframe),
         open |-> Payload(symbol, n).open, high |-> Payload(symbol, n).high,
         low |-> Payload(symbol, n).low, close |-> Payload(symbol, n).close,
         volume |-> Payload(symbol, n).volume]]

Upstream(symbol, timeframe) ==
    {Listed(symbol, timeframe)[n] : n \in 1..(UpstreamLast(symbol) + 1)}

\* exchange.fetch_ohlcv(symbol, timeframe, since, limit): the first `limit`
\* candles at or after `since`, oldest first
fetch_ohlcv(symbol, timeframe, since, limit) ==
    LET AtOrAfter(c) == c.timestamp >= since
        found == SelectSeq(Listed(symbol, timeframe), AtOrAfter)
    IN SubSeq(found, 1, Min2(limit, Len(found)))

\* ------------------------------------------------------------------ fetchers
\* what the upstream calls of one fetch_data do: the call numbered `call`
\* (0: none) raises `error`, a ccxt.BaseError or another Exception
NoFault == [call |-> 0, error |-> "none"]

Fault(n, error) == [call |-> n, error |-> error]

\* most candles one upstream call returns: 100 for OKX, 1000 for Binance
PageCap(exchange) == IF exchange = "okx" THEN 100 ELSE 1000

\* (mutant) the cursor moves by the number of rows kept
NextCursorByCount(current_ms, filtered_data, timeframe_ms) ==
    current_ms + Len(filtered_data) * timeframe_ms

\* last_timestamp = filtered_data[-1][0]; current_ms = last_timestamp + timeframe_ms
NextCursor(current_ms, filtered_data, timeframe_ms) ==
    filtered_data[Len(filtered_data)].timestamp + timeframe_ms

\* (mutant) the loop ends after its first upstream call
PaginationLoopFirstPageOnly(symbol, timeframe, page, end_ms, timeframe_ms, current_ms, all_data, since, fault) ==
    IF ~(current_ms < end_ms)
    THEN [all_data |-> all_data, since |-> since, raised |-> "none"]
    ELSE LET ohlcv == fetch_ohlcv(symbol, timeframe, current_ms, page)
             filtered_data == SelectSeq(ohlcv, LAMBDA candle : candle.timestamp <= end_ms)
         IN IF fault.call = 1
            THEN [all_data |-> all_data, since |-> <<current_ms>>,
                  raised |-> fault.error]
            ELSE [all_data |-> all_data \o filtered_data, since |-> <<current_ms>>,
                  raised |-> "none"]

\* (mutant) a page shorter than the page size does not end the loop
RECURSIVE PaginationLoopUntilEmpty(_, _, _, _, _, _, _, _, _)
PaginationLoopUntilEmpty(symbol, timeframe, page, end_ms, timeframe_ms, current_ms, all_data, since, fault) ==
    IF ~(current_ms < end_ms)
    THEN [all_data |-> all_data, since |-> since, raised |-> "none"]
    ELSE LET ohlcv == fetch_ohlcv(symbol, timeframe, current_ms, page)
             called == Append(since, current_ms)
             filtered_data == SelectSeq(ohlcv, LAMBDA candle : candle.timestamp <= end_ms)
         IN IF fault.call = Len(called)
            THEN [all_data |-> all_data, since |-> called, raised |-> fault.error]
            ELSE IF ohlcv = <<>> \/ filtered_data = <<>>
            THEN [all_data |-> all_data, since |-> called, raised |-> "none"]
            ELSE PaginationLoopUntilEmpty(symbol, timeframe, page, end_ms, timeframe_ms,
                                          NextCursor(current_ms, filtered_data, timeframe_ms),
                                          all_data \o filtered_data, called, fault)

\* the loop `while current_ms < end_ms` of fetch_data; `since` collects the
\* cursor of every upstream call, `raised` is the error that ended the loop
RECURSIVE PaginationLoop(_, _, _, _, _, _, _, _, _)
PaginationLoop(symbol, timeframe, page, end_ms, timeframe_ms, current_ms, all_data, since, fault) ==
    IF ~(current_ms < end_ms)
    THEN [all_data |-> all_data, since |-> since, raised |-> "none"]
    ELSE LET ohlcv == fetch_ohlcv(symbol, timeframe, current_ms, page)
             called == Append(since, current_ms)
             filtered_data == SelectSeq(ohlcv, LAMBDA candle : candle.timestamp <= end_ms)
         IN IF fault.call = Len(called)
            THEN [all_data |-> all_data, since |-> called, raised |-> fault.error]
            ELSE IF ohlcv = <<>> \/ filtered_data = <<>>
            THEN [all_data |-> all_data, since |-> called, raised |-> "none"]
            ELSE IF Len(ohlcv) < page
            THEN [all_data |-> all_data \o filtered_data, since |-> called,
                  raised |-> "none"]
            ELSE PaginationLoop(symbol, timeframe, page, end_ms, timeframe_ms,
                                NextCursor(current_ms, filtered_data, timeframe_ms),
                                all_data \o filtered_data, called, fault)

\* (mutant) no duplicates are dropped
DropDuplicatesNone(rows) == rows

\* df.drop_duplicates('timestamp'): the first row of each timestamp stays
DropDuplicates(rows) ==
    LET numbered == [i \in 1..Len(rows) |-> [i |-> i, row |-> rows[i]]]
        first == SelectSeq(numbered, LAMBDA n :
                     \A j \in 1..(n.i - 1) : rows[j].timestamp # n.row.timestamp)
    IN [k \in 1..Len(first) |-> first[k].row]

\* df.sort_values('timestamp') of rows with distinct timestamps
SortValues(rows) ==
    LET Before(a, b) == a.timestamp < b.timestamp
    IN SortSeq(rows, Before)

\* what fetch_data makes of the candles the pagination loop has collected:
\* an error in `lost` has left the loop for the outer handler, which returns
\* an empty DataFrame; otherwise the candles become a DataFrame, duplicates
\* dropped, sorted and indexed by timestamp
Collected(loop, lost) ==
    LET df == IF loop.raised \in lost
              THEN <<>>
              ELSE SortValues(DropDuplicates(loop.all_data))
    IN [data |-> [i \in 1..Len(df) |->
                    [index |-> FromMs(df[i].timestamp),
                     open |-> to_numeric(df[i].open),
                     high |-> to_numeric(df[i].high),
                     low |-> to_numeric(df[i].low),
                     close |-> to_numeric(df[i].close),
                     volume |-> to_numeric(df[i].volume)]],
        since |-> loop.since, raised |-> loop.raised]

\* (mutant) a ccxt.BaseError is handled like any other Exception: what was
\* accumulated is dropped
fetch_data_drops_partial(exchange, symbol, timeframe, start_time, end_time, limit, fault) ==
    LET start_ms == TimestampMs(start_time)
        end_ms == TimestampMs(end_time)
        timeframe_ms == _get_timeframe_ms(timeframe)
    IN Collected(PaginationLoop(symbol, timeframe, Min2(limit, PageCap(exchange)),
                                end_ms, timeframe_ms, start_ms, <<>>, <<>>, fault),
                 {"BaseError", "Exception"})

\* OKXDataFetcher.fetch_data / BinanceDataFetcher.fetch_data: a
\* ccxt.BaseError ends the loop and what was accumulated is returned; any
\* other Exception reaches the outer handler, which returns an empty DataFrame
fetch_data(exchange, symbol, timeframe, start_time, end_time, limit, fault) ==
    LET start_ms == TimestampMs(start_time)
        end_ms == TimestampMs(end_time)
        timeframe_ms == _get_timeframe_ms(timeframe)
    IN Collected(PaginationLoop(symbol, timeframe, Min2(limit, PageCap(exchange)),
                                end_ms, timeframe_ms, start_ms, <<>>, <<>>, fault),
                 {"Exception"})

\* ------------------------------------------------------------------ engine
\* (mutant) every run starts at now minus the lookback
FetchStartTimeIgnoresLatest(latest_timestamp, timeframe, start_time) == start_time

\* the start of the fetch window of one SeriesKey
FetchStartTime(latest_timestamp, timeframe, start_time) ==
    IF TruthyInt(latest_timestamp)
    THEN DtPlus(FromMs(TheValue(latest_timestamp)), _get_timeframe_delta(timeframe))
    ELSE start_time

\* the end of the body of the loops of fetch_crypto_data: the DataFrame
\* `got` that fetch_data returned is saved when it is not empty; `read` holds
\* what the body found before the fetch
SaveFetched(tbl, symbol, exchange, timeframe, read, got) ==
    LET saved == IF got.data # <<>>
                 THEN save_data(tbl, got.data, symbol, exchange, timeframe)
                 ELSE [table |-> tbl, ret |-> 0]
    IN [table |-> saved.table, latest_timestamp |-> read.latest_timestamp,
        fetch_start_time |-> read.fetch_start_time, fetched |-> TRUE,
        since |-> got.since, data |-> got.data, ret |-> saved.ret]

\* (mutant) the test `fetch_start_time >= end_time` left out
SyncSeriesNoSkip(tbl, symbol, exchange, timeframe, now, days, fault) ==
    LET end_time == now
        start_time == DtPlus(end_time, 0 - DaysMs(days))
        latest_timestamp == get_latest_timestamp(tbl, symbol, exchange, timeframe)
        fetch_start_time == FetchStartTime(latest_timestamp, timeframe, start_time)
    IN SaveFetched(tbl, symbol, exchange, timeframe,
                   [latest_timestamp |-> latest_timestamp,
                    fetch_start_time |-> fetch_start_time],
                   fetch_data(exchange, symbol, timeframe, fetch_start_time,
                              end_time, 1000, fault))

\* the body of the loops of fetch_crypto_data for one exchange, symbol and
\* timeframe
SyncSeries(tbl, symbol, exchange, timeframe, now, days, fault) ==
    LET end_time == now
        start_time == DtPlus(end_time, 0 - DaysMs(days))
        latest_timestamp == get_latest_timestamp(tbl, symbol, exchange, timeframe)
        fetch_start_time == FetchStartTime(latest_timestamp, timeframe, start_time)
        skipped == [table |-> tbl, latest_timestamp |-> latest_timestamp,
                    fetch_start_time |-> fetch_start_time, fetched |-> FALSE,
                    since |-> <<>>, data |-> <<>>, ret |-> 0]
    IN IF DtGeq(fetch_start_time, end_time)
       THEN skipped
       ELSE SaveFetched(tbl, symbol, exchange, timeframe,
                        [latest_timestamp |-> latest_timestamp,
                         fetch_start_time |-> fetch_start_time],
                        fetch_data(exchange, symbol, timeframe, fetch_start_time,
                                   end_time, 1000, fault))

\* ------------------------------------------------------------------ adapters
\* OKXDataFetcher._init_exchange / BinanceDataFetcher._init_exchange: the
\* keys are read with fallback '' and handed to the ccxt constructor as they
\* are; self.exchange is None only when something in the try block raises
\* (`ctor` = "raises")
_init_exchange(exchange, api_key, ctor) ==
    IF ctor = "raises"
    THEN None
    ELSE {[id |-> exchange, apiKey |-> api_key]}

\* TushareDataFetcher._init_tushare: self.pro is None when the token is
\* empty or something in the try block raises
_init_tushare(token, ctor) ==
    IF ctor = "raises"
    THEN None
    ELSE IF token # ""
         THEN {[id |-> "tushare", apiKey |-> token]}
         ELSE None

\* the constructor of the fetcher of an exchange
Fetcher(exchange, credential, ctor) ==
    IF exchange = "tushare"
    THEN _init_tushare(credential, ctor)
    ELSE _init_exchange(exchange, credential, ctor)

\* data.dropna(): the rows without NaN
dropna(rows) ==
    LET Whole(r) == NotANumber \notin {r.open, r.high, r.low, r.close, r.volume}
    IN SelectSeq(rows, Whole)

\* strftime('%Y%m%d') of a datetime, as the number of the day
Day(dt) == dt.ms \div 86400000

\* TushareDataFetcher.fetch_data: one call of pro.daily for the days from
\* start_date to end_date, which raises when the token is not a live one
\* (`since` holds the start_date of the call that was made)
Tushare_fetch_data(pro, symbol, timeframe, start_time, end_time) ==
    IF pro = None
    THEN [data |-> <<>>, since |-> <<>>, raised |-> "none"]
    ELSE LET start_date == Day(start_time)
             end_date == Day(end_time)
             InRange(c) == Day(FromMs(c.timestamp)) \in start_date..end_date
             daily == SelectSeq(Listed(symbol, "1d"), InRange)
         IN IF TheValue(pro).apiKey # "live"
            THEN [data |-> <<>>, since |-> <<start_date>>, raised |-> "Exception"]
            ELSE [data |-> dropna([i \in 1..Len(daily) |->
                              [index |-> FromMs(daily[i].timestamp),
                               open |-> to_numeric(daily[i].open),
                               high |-> to_numeric(daily[i].high),
                               low |-> to_numeric(daily[i].low),
                               close |-> to_numeric(daily[i].close),
                               volume |-> to_numeric(daily[i].volume)]]),
                  since |-> <<start_date>>, raised |-> "none"]

\* (mutant) fetch_data without the test of self.exchange / self.pro, on a
\* fetcher that reaches the upstream all the same
Fetcher_fetch_data_unguarded(handle, exchange, symbol, timeframe, start_time, end_time, limit, fault) ==
    IF exchange = "tushare"
    THEN Tushare_fetch_data({[id |-> "tushare", apiKey |-> "live"]}, symbol, timeframe,
                            start_time, end_time)
    ELSE fetch_data(exchange, symbol, timeframe, start_time, end_time, limit, fault)

\* fetch_data of the fetcher of `exchange` whose self.exchange / self.pro is
\* `handle`: `if not self.exchange: return pd.DataFrame()` comes first
Fetcher_fetch_data(handle, exchange, symbol, timeframe, start_time, end_time, limit, fault) ==
    IF exchange = "tushare"
    THEN Tushare_fetch_data(handle, symbol, timeframe, start_time, end_time)
    ELSE IF handle = None
         THEN [data |-> <<>>, since |-> <<>>, raised |-> "none"]
         ELSE fetch_data(exchange, symbol, timeframe, start_time, end_time, limit, fault)

\* the body of the loops of fetch_crypto_data for one exchange, symbol and
\* timeframe, the fetcher of the exchange holding `handle`
SyncSeriesThrough(handle, tbl, symbol, exchange, timeframe, now, days, fault) ==
    LET end_time == now
        start_time == DtPlus(end_time, 0 - DaysMs(days))
        latest_timestamp == get_latest_timestamp(tbl, symbol, exchange, timeframe)
        fetch_start_time == FetchStartTime(latest_timestamp, timeframe, start_time)
    IN IF DtGeq(fetch_start_time, end_time)
       THEN [table |-> tbl, latest_timestamp |-> latest_timestamp,
             fetch_start_time |-> fetch_start_time, fetched |-> FALSE,
             since |-> <<>>, data |-> <<>>, ret |-> 0]
       ELSE SaveFetched(tbl, symbol, exchange, timeframe,
                        [latest_timestamp |-> latest_timestamp,
                         fetch_start_time |-> fetch_start_time],
                        Fetcher_fetch_data(handle, exchange, symbol, timeframe,
                                           fetch_start_time, end_time, 1000, fault))

\* the exchanges self.fetchers of the engine has a crypto fetcher for
CryptoFetchers == {"okx", "binance"}

\* what a key leaves when the step `step` of its run `run` raises: the
\* handler of the loops takes over and the table is as it was before
\* ("execute": cursor.execute raises sqlite3.Error for the first record of
\* save_data, which prints it and goes on to the next record; `failed`
\* counts such records)
RaisedAt(tbl, step, run, symbol, exchange, timeframe) ==
    LET raised == \/ step = "latest"
                  \/ step = "fetch" /\ run.fetched
                  \/ step = "save" /\ run.fetched /\ run.data # <<>>
    IN IF raised
       THEN [table |-> tbl, ret |-> 0, raised |-> TRUE, failed |-> 0]
       ELSE IF step = "execute" /\ run.fetched /\ run.data # <<>>
       THEN [table |-> save_data_failing(tbl, run.data, symbol, exchange,
                                         timeframe, {1}).table,
             ret |-> save_data_failing(tbl, run.data, symbol, exchange,
                                       timeframe, {1}).ret,
             raised |-> FALSE, failed |-> 1]
       ELSE [table |-> run.table, ret |-> run.ret, raised |-> FALSE, failed |-> 0]

\* the body of the loops for one key when the step `step` of it raises
\* ("latest": get_latest_timestamp, "fetch": fetcher.fetch_data, "save":
\* save_data, whose transaction is rolled back; "none": nothing raises); a
\* step the run does not come to cannot raise
SyncSeriesRaising(tbl, symbol, exchange, timeframe, now, days, step) ==
    RaisedAt(tbl, step, SyncSeries(tbl, symbol, exchange, timeframe, now, days, NoFault),
             symbol, exchange, timeframe)

\* (mutant) no try / except inside the loops: an exception ends the batch
RECURSIVE FetchCryptoLoopAborting(_, _, _, _, _, _, _, _)
FetchCryptoLoopAborting(tbl, keys, i, results, log, now, days, inject) ==
    IF i > Len(keys)
    THEN [table |-> tbl, results |-> results, log |-> log]
    ELSE LET k == keys[i]
             run == SyncSeriesRaising(tbl, k.symbol, k.exchange, k.timeframe, now, days,
                                      IF inject.index = i THEN inject.step ELSE "none")
         IN IF run.raised
            THEN [table |-> tbl, results |-> results, log |-> log]
            ELSE FetchCryptoLoopAborting(run.table, keys, i + 1,
                     [results EXCEPT ![k.exchange] = @ + run.ret],
                     Append(log, [key |-> k, ret |-> run.ret, failed |-> run.failed]), now, days, inject)

\* the loops of fetch_crypto_data over the keys from key i on; the step
\* inject.step of the key numbered inject.index raises; `log` collects the
\* keys that were processed to their end, with their insert counts
RECURSIVE FetchCryptoLoop(_, _, _, _, _, _, _, _)
FetchCryptoLoop(tbl, keys, i, results, log, now, days, inject) ==
    IF i > Len(keys)
    THEN [table |-> tbl, results |-> results, log |-> log]
    ELSE LET k == keys[i]
             run == SyncSeriesRaising(tbl, k.symbol, k.exchange, k.timeframe, now, days,
                                      IF inject.index = i THEN inject.step ELSE "none")
         IN IF run.raised
            THEN FetchCryptoLoop(tbl, keys, i + 1, results, log, now, days, inject)
            ELSE FetchCryptoLoop(run.table, keys, i + 1,
                     [results EXCEPT ![k.exchange] = @ + run.ret],
                     Append(log, [key |-> k, ret |-> run.ret, failed |-> run.failed]), now, days, inject)

\* the keys of a batch in the order of the loops: exchanges (those with a
\* fetcher), then symbols, then timeframes
BatchKeys(symbols, timeframes, exchanges) ==
    LET known == SelectSeq(exchanges, LAMBDA e : e \in CryptoFetchers)
        per == Len(symbols) * Len(timeframes)
    IN [n \in 1..(Len(known) * per) |->
           [exchange |-> known[((n - 1) \div per) + 1],
            symbol |-> symbols[(((n - 1) % per) \div Len(timeframes)) + 1],
            timeframe |-> timeframes[((n - 1) % Len(timeframes)) + 1]]]

\* results[exchange] = 0 for every exchange of the batch that has a fetcher
\* (the code sets it when the loop comes to the exchange, which is the same
\* for a list that names no exchange twice)
NoResults(exchanges) ==
    [e \in {exchanges[i] : i \in 1..Len(exchanges)} \cap CryptoFetchers |-> 0]

\* DataFeedEngine.get_data: datetime bounds become integer milliseconds
engine_get_data(tbl, symbol, exchange, timeframe, start_time, end_time, limit) ==
    LET start_ms == IF start_time # None THEN {TimestampMs(TheValue(start_time))} ELSE None
        end_ms == IF end_time # None THEN {TimestampMs(TheValue(end_time))} ELSE None
    IN get_data(tbl, symbol, exchange, timeframe, start_ms, end_ms, limit)


\* ------------------------------------------------------------------ calls
Idle == [op |-> "idle"]

\* DataFeedEngine.__init__: not running, no thread; no job is scheduled
SchedInit ==
    /\ running = FALSE
    /\ scheduler_thread = None
    /\ jobs = <<>>
    /\ threads = <<>>
    /\ main = [pc |-> "idle", last |-> "none"]

Init ==
    /\ table = EmptyBag
    /\ call = Idle
    /\ SchedInit

\* DatabaseManager.save_data(data, symbol, exchange, timeframe); the same
\* call may be issued again (a retry) before the caller moves on
SaveData(data, k) ==
    /\ \/ call = Idle
       \/ /\ call.op = "save_data"
          /\ call.data = data
          /\ call.key = k
          /\ call.attempt < MaxAttempts
    /\ LET res == save_data(table, data, k.symbol, k.exchange, k.timeframe)
       IN /\ BagCardinality(res.table) <= MaxRows
          /\ table' = res.table
          /\ call' = [op |-> "save_data", data |-> data, key |-> k, ret |-> res.ret,
                      attempt |-> IF call = Idle THEN 1 ELSE call.attempt + 1,
                      before |-> table]
    /\ UNCHANGED sched

GetData(k, start_time, end_time, limit) ==
    /\ call = Idle
    /\ call' = [op |-> "get_data", key |-> k, start_time |-> start_time,
                end_time |-> end_time, limit |-> limit,
                ret |-> get_data(table, k.symbol, k.exchange, k.timeframe,
                                 start_time, end_time, limit),
                before |-> table]
    /\ UNCHANGED <<table, sched>>

GetLatestTimestamp(k) ==
    /\ call = Idle
    /\ call' = [op |-> "get_latest_timestamp", key |-> k,
                ret |-> get_latest_timestamp(table, k.symbol, k.exchange, k.timeframe),
                before |-> table]
    /\ UNCHANGED <<table, sched>>

ClearData(symbol, exchange, timeframe) ==
    /\ call = Idle
    /\ LET res == clear_data(table, symbol, exchange, timeframe)
       IN /\ table' = res.table
          /\ call' = [op |-> "clear_data", symbol |-> symbol, exchange |-> exchange,
                      timeframe |-> timeframe, ret |-> res.ret, before |-> table]
    /\ UNCHANGED sched

\* DataFeedEngine.get_data(symbol, exchange, timeframe, start_time, end_time)
EngineGetData(k, start_time, end_time) ==
    /\ call = Idle
    /\ call' = [op |-> "engine_get_data", key |-> k, start_time |-> start_time,
                end_time |-> end_time,
                ret |-> engine_get_data(table, k.symbol, k.exchange, k.timeframe,
                                        start_time, end_time, None),
                before |-> table]
    /\ UNCHANGED <<table, sched>>

\* what a call of fetch_crypto_data for one SeriesKey leaves in `call`
SyncCall(k, now, days, fault, run) ==
    [op |-> "fetch_crypto_data", key |-> k, now |-> now, days |-> days,
     fault |-> fault, latest_timestamp |-> run.latest_timestamp,
     fetch_start_time |-> run.fetch_start_time, fetched |-> run.fetched,
     since |-> run.since, data |-> run.data, ret |-> run.ret,
     attempt |-> IF call = Idle THEN 1 ELSE call.attempt + 1,
     before |-> table]

\* the same fetch_crypto_data call is being issued again, the clock standing
SameSync(k, now, days, fault) ==
    /\ call.op = "fetch_crypto_data"
    /\ call.key = k /\ call.now = now /\ call.days = days /\ call.fault = fault
    /\ call.attempt < MaxAttempts

\* fetch_crypto_data(symbols=[symbol], timeframes=[timeframe],
\* exchanges=[exchange], days=days) at the time `now`: one sync run; the
\* same run may be made again before the clock moves
FetchCryptoData(k, now, days) ==
    /\ call = Idle \/ SameSync(k, now, days, NoFault)
    /\ LET run == SyncSeries(table, k.symbol, k.exchange, k.timeframe, now, days, NoFault)
       IN /\ BagCardinality(run.table) <= MaxRows
          /\ table' = run.table
          /\ call' = SyncCall(k, now, days, NoFault, run)
    /\ UNCHANGED sched

\* the caller takes the result of the call
Return ==
    /\ call # Idle
    /\ call' = Idle
    /\ UNCHANGED <<table, sched>>

Next ==
    \/ \E data \in DataFrames, k \in SeriesKeys : SaveData(data, k)
    \/ \E k \in SeriesKeys, s \in TimeBounds, e \in TimeBounds, l \in {None, {1}} :
          GetData(k, s, e, l)
    \/ \E k \in SeriesKeys : GetLatestTimestamp(k)
    \/ \E s \in {None} \cup {{s} : s \in {k.symbol : k \in SeriesKeys}},
          e \in {None} \cup {{e} : e \in Exchanges},
          t \in {None} \cup {{t} : t \in {k.timeframe : k \in SeriesKeys}} :
          ClearData(s, e, t)
    \/ \E k \in SeriesKeys, s \in DateBounds, e \in DateBounds : EngineGetData(k, s, e)
    \/ \E k \in SyncKeys, now \in Clock, days \in Lookbacks :
          FetchCryptoData(k, now, days)
    \/ Return

Spec == Init /\ [][Next]_vars

\* ------------------------------------------------------------------ adapter calls
\* fetch_data called directly, with `limit` as the page size, over windows
\* near the newest candles of SOL/USDT; times step by half a timeframe
HalfMinute(h) == Dt(h * 30000, 0)

PageLimits == 1..MaxPage

FirstHalf == 2 * (UpstreamLast("SOL/USDT") - 5 * MaxPage)

PageFaults == {NoFault, Fault(2, "BaseError"), Fault(2, "Exception")}

\* fetcher.fetch_data(symbol, timeframe, start_time, end_time, limit)
FetchData(exchange, symbol, timeframe, start_time, end_time, limit, fault) ==
    /\ call = Idle
    /\ LET got == fetch_data(exchange, symbol, timeframe, start_time, end_time,
                             limit, fault)
       IN call' = [op |-> "fetch_data", exchange |-> exchange, symbol |-> symbol,
                   timeframe |-> timeframe, start_time |-> start_time,
                   end_time |-> end_time, limit |-> limit, fault |-> fault,
                   data |-> got.data, since |-> got.since, raised |-> got.raised]
    /\ UNCHANGED <<table, sched>>

PageNext ==
    \/ \E exchange \in Exchanges,
          start_time \in {HalfMinute(h) : h \in FirstHalf..(FirstHalf + 2)},
          end_time \in {HalfMinute(h) : h \in FirstHalf..(FirstHalf + 10 * MaxPage + 2)},
          limit \in PageLimits, fault \in PageFaults :
          FetchData(exchange, "SOL/USDT", "1m", start_time, end_time, limit, fault)
    \/ Return

PageSpec == Init /\ [][PageNext]_vars

EdgeNext ==
    \/ \E exchange \in Exchanges, symbol \in {"BTC/USDT", "ETH/USDT"}, start_time \in {Dt(0, 0), Dt(60000, 0)},
          end_time \in {Dt(60000, 0), Dt(120000, 0), Dt(180000, 0), Dt(300000, 0)}, limit \in PageLimits, fault \in PageFaults :
          FetchData(exchange, symbol, "1m", start_time, end_time, limit, fault)
    \/ Return

EdgeSpec == Init /\ [][EdgeNext]_vars

\* ------------------------------------------------------------------ long sync runs
\* sync runs of an hourly series whose window needs several upstream pages,
\* with and without a failing upstream call
Hour(n) == Dt(n * 3600000, 0)

\* fetch_crypto_data for one SeriesKey, some upstream call of it failing
SyncRun(k, now, days, fault) ==
    /\ call = Idle \/ SameSync(k, now, days, fault)
    /\ LET run == SyncSeries(table, k.symbol, k.exchange, k.timeframe, now, days, fault)
       IN /\ table' = run.table
          /\ call' = SyncCall(k, now, days, fault, run)
    /\ UNCHANGED sched

SyncNext ==
    \/ \E k \in {[symbol |-> "SOL/USDT", exchange |-> "okx", timeframe |-> "1h"]},
          now \in {Hour(115), Hour(216), Dt(Hour(216).ms + 1800000, 500), Hour(219)},
          days \in {7, 9},
          fault \in {NoFault, Fault(2, "BaseError"), Fault(3, "BaseError"), Fault(2, "Exception")} : SyncRun(k, now, days, fault)
    \/ Return

SyncSpec == Init /\ [][SyncNext]_vars

\* ------------------------------------------------------------------ batches
\* fetch_crypto_data over lists of symbols, timeframes and exchanges, a step
\* of one of its keys raising
NoRaise == [index |-> 0, step |-> "none"]

SymbolLists == {<<"BTC/USDT", "ETH/USDT">>, <<"BTC/USDT">>}

TimeframeLists == {<<"1m">>, <<"1m", "5m">>}

ExchangeLists == {<<"okx">>, <<"kraken", "binance", "okx">>}

BatchLookbacks == {d \in Lookbacks : \A e \in Lookbacks : d <= e}

\* fetch_crypto_data(symbols, timeframes, exchanges, days) at the time `now`
FetchCryptoBatch(symbols, timeframes, exchanges, now, days, inject) ==
    /\ call = Idle
    /\ LET keys == BatchKeys(symbols, timeframes, exchanges)
           done == FetchCryptoLoop(table, keys, 1, NoResults(exchanges), <<>>, now,
                                   days, inject)
       IN /\ table' = done.table
          /\ call' = [op |-> "fetch_crypto_batch", symbols |-> symbols,
                      timeframes |-> timeframes, exchanges |-> exchanges,
                      keys |-> keys, now |-> now, days |-> days, inject |-> inject,
                      ret |-> done.results, log |-> done.log, before |-> table]
    /\ UNCHANGED sched

BatchNext ==
    \/ \E symbols \in SymbolLists, timeframes \in TimeframeLists,
          exchanges \in ExchangeLists, now \in Clock, days \in BatchLookbacks :
          \E inject \in {NoRaise} \cup
                {[index |-> j, step |-> st] :
                    j \in 1..Len(BatchKeys(symbols, timeframes, exchanges)),
                    st \in {"latest", "fetch", "save"}} :
             FetchCryptoBatch(symbols, timeframes, exchanges, now, days, inject)
    \/ Return

BatchSpec == Init /\ [][BatchNext]_vars

\* ------------------------------------------------------------------ scheduler
\* the SeriesKeys of the configuration a scheduled batch job goes through, in
\* the order of the loops of fetch_crypto_data
JobKeys == BatchKeys(<<"BTC/USDT", "ETH/USDT">>, <<"1m">>, <<"okx">>)

\* a job of the `schedule` module: due says that its interval has elapsed
\* since it was scheduled or last run
Job(id) == [id |-> id, due |-> FALSE]

\* a background thread at the head of _run_scheduler
\* (raised: the last batch job it ran ended in the handler of _scheduled_fetch)
Thread == [pc |-> "check", job |-> 0, i |-> 0, now |-> Dt(0, 0), raised |-> FALSE]

\* the threads that are inside _scheduled_fetch
Executing == {t \in DOMAIN threads : threads[t].pc = "job"}

\* (mutant) start_scheduler without the guard on self.running
StartSchedulerUnguarded ==
    /\ main.pc = "idle"
    /\ running
    /\ Len(threads) < MaxThreads
    /\ jobs' = Append(jobs, Job(Len(threads) + 1))
    /\ main' = [pc |-> "start_scheduled", last |-> "start"]
    /\ UNCHANGED <<table, call, running, scheduler_thread, threads>>

\* start_scheduler called while self.running is set: it warns and returns
StartSchedulerRunning ==
    /\ main.pc = "idle"
    /\ running
    /\ main' = [pc |-> "idle", last |-> "start_running"]
    /\ UNCHANGED <<table, call, running, scheduler_thread, jobs, threads>>

\* start_scheduler, first statements: the guard on self.running, then
\* schedule.every(interval_minutes).minutes.do(self._scheduled_fetch, config)
StartSchedule ==
    /\ main.pc = "idle"
    /\ ~running
    /\ Len(threads) < MaxThreads
    /\ jobs' = Append(jobs, Job(Len(threads) + 1))
    /\ main' = [pc |-> "start_scheduled", last |-> "start"]
    /\ UNCHANGED <<table, call, running, scheduler_thread, threads>>

\* start_scheduler: self.running = True
StartSetRunning ==
    /\ main.pc = "start_scheduled"
    /\ running' = TRUE
    /\ main' = [main EXCEPT !.pc = "start_running"]
    /\ UNCHANGED <<table, call, scheduler_thread, jobs, threads>>

\* start_scheduler: the thread is made, kept in self.scheduler_thread and
\* started; the call returns
StartThread ==
    /\ main.pc = "start_running"
    /\ threads' = Append(threads, Thread)
    /\ scheduler_thread' = {Len(threads) + 1}
    /\ main' = [main EXCEPT !.pc = "idle"]
    /\ UNCHANGED <<table, call, running, jobs>>

\* stop_scheduler: self.running = False
StopSetFlag ==
    /\ main.pc = "idle"
    /\ running' = FALSE
    /\ main' = [pc |-> "stop_flag", last |-> "stop"]
    /\ UNCHANGED <<table, call, scheduler_thread, jobs, threads>>

\* a stop_scheduler that leaves the jobs of the `schedule` module in place
StopKeepsJobs ==
    /\ main.pc = "stop_flag"
    /\ main' = [main EXCEPT !.pc = "stop_cleared"]
    /\ UNCHANGED <<table, call, running, scheduler_thread, jobs, threads>>

\* stop_scheduler: schedule.clear()
StopClear ==
    /\ main.pc = "stop_flag"
    /\ jobs' = <<>>
    /\ main' = [main EXCEPT !.pc = "stop_cleared"]
    /\ UNCHANGED <<table, call, running, scheduler_thread, threads>>

\* a stop_scheduler whose join has no timeout: it comes back only when the
\* thread has ended
StopJoinWaitsForExit ==
    /\ main.pc = "stop_cleared"
    /\ \A t \in scheduler_thread : threads[t].pc = "done"
    /\ main' = [main EXCEPT !.pc = "idle"]
    /\ UNCHANGED <<table, call, running, scheduler_thread, jobs, threads>>

\* stop_scheduler: self.scheduler_thread.join(timeout=5) when there is a
\* thread; join comes back when the thread has ended or the five seconds are
\* over, whichever is first, and the call returns
StopJoin ==
    /\ main.pc = "stop_cleared"
    /\ main' = [main EXCEPT !.pc = "idle"]
    /\ UNCHANGED <<table, call, running, scheduler_thread, jobs, threads>>

\* the interval of a scheduled job elapses
Tick ==
    /\ \E j \in DOMAIN jobs :
          /\ ~jobs[j].due
          /\ jobs' = [jobs EXCEPT ![j].due = TRUE]
    /\ UNCHANGED <<table, call, running, scheduler_thread, threads, main>>

\* _run_scheduler: while self.running
ThreadCheck(t) ==
    /\ threads[t].pc = "check"
    /\ threads' = [threads EXCEPT ![t].pc = IF running THEN "pending" ELSE "done"]
    /\ UNCHANGED <<table, call, running, scheduler_thread, jobs, main>>

\* _run_scheduler: schedule.run_pending(), which calls the job that is due
\* (_scheduled_fetch, and through fetch_all_data fetch_crypto_data, which
\* reads the clock once), or comes back at once when none is
ThreadRunPending(t) ==
    /\ threads[t].pc = "pending"
    /\ \/ \E j \in DOMAIN jobs, now \in Clock :
             /\ jobs[j].due
             /\ threads' = [threads EXCEPT ![t] = [pc |-> "job", job |-> jobs[j].id,
                                                   i |-> 1, now |-> now,
                                                   raised |-> FALSE]]
       \/ /\ \A j \in DOMAIN jobs : ~jobs[j].due
          /\ threads' = [threads EXCEPT ![t].pc = "sleep"]
    /\ UNCHANGED <<table, call, running, scheduler_thread, jobs, main>>

\* _scheduled_fetch: the body of the loops of fetch_crypto_data for the next
\* SeriesKey of the configuration, with the default lookback of seven days
ThreadJobStep(t) ==
    /\ threads[t].pc = "job"
    /\ threads[t].i <= Len(JobKeys)
    /\ LET k == JobKeys[threads[t].i]
           run == SyncSeries(table, k.symbol, k.exchange, k.timeframe,
                             threads[t].now, 7, NoFault)
       IN table' = run.table
    /\ threads' = [threads EXCEPT ![t].i = @ + 1]
    /\ UNCHANGED <<call, running, scheduler_thread, jobs, main>>

\* _scheduled_fetch returns: the job, when it is still scheduled, is due
\* again one interval later; run_pending comes back and the thread sleeps
ThreadJobEnd(t) ==
    /\ threads[t].pc = "job"
    /\ threads[t].i > Len(JobKeys)
    /\ jobs' = [j \in DOMAIN jobs |->
                   IF jobs[j].id = threads[t].job THEN [jobs[j] EXCEPT !.due = FALSE]
                   ELSE jobs[j]]
    /\ threads' = [threads EXCEPT ![t].pc = "sleep"]
    /\ UNCHANGED <<table, call, running, scheduler_thread, main>>

\* _run_scheduler: time.sleep(30) is over
ThreadWake(t) ==
    /\ threads[t].pc = "sleep"
    /\ threads' = [threads EXCEPT ![t].pc = "check"]
    /\ UNCHANGED <<table, call, running, scheduler_thread, jobs, main>>

SchedNext ==
    \/ StartSchedulerRunning
    \/ StartSchedule
    \/ StartSetRunning
    \/ StartThread
    \/ StopSetFlag
    \/ StopClear
    \/ StopJoin
    \/ Tick
    \/ \E t \in DOMAIN threads : ThreadCheck(t)
    \/ \E t \in DOMAIN threads : ThreadRunPending(t)
    \/ \E t \in DOMAIN threads : ThreadJobStep(t)
    \/ \E t \in DOMAIN threads : ThreadJobEnd(t)
    \/ \E t \in DOMAIN threads : ThreadWake(t)

SchedSpec == Init /\ [][SchedNext]_vars

\* the caller of stop_scheduler goes on to the next statement, and the
\* timeout of join runs out
SchedFairSpec == SchedSpec /\ WF_vars(StopClear) /\ WF_vars(StopJoin)

\* (mutant) _scheduled_fetch without its try / except: the exception leaves
\* run_pending and _run_scheduler, and the thread ends
ThreadJobRaiseKills(t) ==
    /\ threads[t].pc = "job"
    /\ threads' = [threads EXCEPT ![t].pc = "done", ![t].raised = TRUE]
    /\ UNCHANGED <<table, call, running, scheduler_thread, jobs, main>>

\* fetch_all_data raises inside _scheduled_fetch: except Exception logs the
\* error and _scheduled_fetch returns as after a run without error; the job,
\* when it is still scheduled, is due again one interval later
ThreadJobRaise(t) ==
    /\ threads[t].pc = "job"
    /\ jobs' = [j \in DOMAIN jobs |->
                   IF jobs[j].id = threads[t].job THEN [jobs[j] EXCEPT !.due = FALSE]
                   ELSE jobs[j]]
    /\ threads' = [threads EXCEPT ![t].pc = "sleep", ![t].raised = TRUE]
    /\ UNCHANGED <<table, call, running, scheduler_thread, main>>

SchedRaiseNext ==
    \/ SchedNext
    \/ \E t \in DOMAIN threads : ThreadJobRaise(t)

\* the next statement of the background thread t outside the loops of the
\* batch job (how long the sync of a SeriesKey takes is left open)
ThreadStep(t) ==
    /\ t \in DOMAIN threads
    /\ \/ ThreadCheck(t)
       \/ ThreadRunPending(t)
       \/ ThreadJobEnd(t)
       \/ ThreadWake(t)

\* batch jobs may raise; the background threads are scheduled fairly and
\* the interval of a scheduled job elapses
SchedRaiseSpec ==
    /\ Init
    /\ [][SchedRaiseNext]_vars
    /\ WF_vars(Tick)
    /\ \A t \in 1..MaxThreads : WF_vars(ThreadStep(t))

\* ------------------------------------------------------------------ write failures
StorageNext ==
    \/ \E symbols \in SymbolLists, timeframes \in TimeframeLists,
          exchanges \in ExchangeLists, now \in Clock, days \in BatchLookbacks :
          \E inject \in {[index |-> j, step |-> st] :
                            j \in 1..Len(BatchKeys(symbols, timeframes, exchanges)),
                            st \in {"save", "execute"}} :
             FetchCryptoBatch(symbols, timeframes, exchanges, now, days, inject)
    \/ Return

StorageSpec == Init /\ [][StorageNext]_vars

\* ------------------------------------------------------------------ loader
\* the end of DataLoader._load_data: `first` is what the first read returned
\* and `got` what fetcher.fetch_data returned when it was called; the
\* DataFrame it returned is dropped and the table is read again as it is
Loaded(tbl, first, tried, got, symbol, exchange, timeframe, start_date, end_date) ==
    IF first # <<>>
    THEN [first |-> first, tried |-> FALSE, fetched |-> <<>>, data |-> first,
          ret |-> {first}]
    ELSE IF tried
    THEN [first |-> first, tried |-> TRUE, fetched |-> got,
          data |-> engine_get_data(tbl, symbol, exchange, timeframe,
                                   {start_date}, {end_date}, None),
          ret |-> IF engine_get_data(tbl, symbol, exchange, timeframe,
                                     {start_date}, {end_date}, None) = <<>>
                  THEN None
                  ELSE {engine_get_data(tbl, symbol, exchange, timeframe,
                                        {start_date}, {end_date}, None)}]
    ELSE [first |-> first, tried |-> FALSE, fetched |-> <<>>, data |-> first,
          ret |-> None]

\* DataLoader._load_data with start_date and end_date given; the feed it
\* returns is the DataFrame it was built from
_load_data(tbl, data_type, symbol, exchange, timeframe, start_date, end_date) ==
    Loaded(tbl,
           engine_get_data(tbl, symbol, exchange, timeframe,
                           {start_date}, {end_date}, None),
           data_type = "crypto" /\ exchange \in CryptoFetchers,
           fetch_data(exchange, symbol, timeframe, start_date, end_date,
                      1000, NoFault).data,
           symbol, exchange, timeframe, start_date, end_date)

LoadData(data_type, k, start_date, end_date) ==
    /\ call = Idle
    /\ LET load == _load_data(table, data_type, k.symbol, k.exchange, k.timeframe,
                              start_date, end_date)
       IN call' = [op |-> "load_data", data_type |-> data_type, key |-> k,
                   start_date |-> start_date, end_date |-> end_date,
                   first |-> load.first, tried |-> load.tried,
                   fetched |-> load.fetched, data |-> load.data,
                   ret |-> load.ret, before |-> table]
    /\ UNCHANGED <<table, sched>>

LoadNext ==
    \/ \E data_type \in {"crypto", "stock"}, k \in SyncKeys, start_date \in {Dt(0, 0), Dt(60000, 0)},
          end_date \in {Dt(60000, 0), Dt(120000, 0), Dt(180000, 0)} : LoadData(data_type, k, start_date, end_date)
    \/ \E k \in SyncKeys, now \in Clock, days \in Lookbacks :
          FetchCryptoData(k, now, days)
    \/ Return

LoadSpec == Init /\ [][LoadNext]_vars

\* ------------------------------------------------------------------ pagination steps
\* the loop `while current_ms < end_ms` of fetch_data one iteration at a
\* time, the exchange answering each call with any page at all: candles
\* before the cursor, out of order, the same page again
MaxCalls == 3

LoopStamps == {0, 60000, 120000, 180000}

LoopPages ==
    {<<>>} \cup {<<[timestamp |-> a]>> : a \in LoopStamps}
           \cup {<<[timestamp |-> a], [timestamp |-> b]>> : a \in LoopStamps, b \in LoopStamps}

\* candle[0] <= end_ms
Filtered(ohlcv, end_ms) == SelectSeq(ohlcv, LAMBDA candle : candle.timestamp <= end_ms)

\* fetch_data reaches the loop: all_data = [], current_ms = start_ms
LoopBegin(start_ms, end_ms, limit) ==
    /\ call = Idle
    /\ call' = [op |-> "fetch_loop", pc |-> "loop", timeframe_ms |-> _get_timeframe_ms("1m"),
                limit |-> limit, end_ms |-> end_ms, current_ms |-> start_ms,
                since |-> start_ms, ohlcv |-> <<>>, appended |-> FALSE,
                calls |-> 0, raised |-> "none"]
    /\ UNCHANGED <<table, sched>>

\* one iteration: fetch_ohlcv(since=current_ms) returns `ohlcv`
LoopStep(ohlcv) ==
    /\ call # Idle /\ call.op = "fetch_loop" /\ call.pc = "loop"
    /\ call.current_ms < call.end_ms
    /\ LET filtered_data == Filtered(ohlcv, call.end_ms)
           called == [call EXCEPT !.since = call.current_ms, !.ohlcv = ohlcv,
                                  !.calls = Min2(call.calls + 1, MaxCalls)]
       IN call' = IF ohlcv = <<>> \/ filtered_data = <<>>
                  THEN [called EXCEPT !.pc = "returned", !.appended = FALSE]
                  ELSE [called EXCEPT
                           !.appended = TRUE,
                           !.current_ms = NextCursor(call.current_ms, filtered_data,
                                                     call.timeframe_ms),
                           !.pc = IF Len(ohlcv) < call.limit THEN "returned" ELSE "loop"]
    /\ UNCHANGED <<table, sched>>

\* one iteration: fetch_ohlcv raises; a ccxt.BaseError breaks the loop, any
\* other Exception leaves fetch_data through its outer handler
LoopRaise(error) ==
    /\ call # Idle /\ call.op = "fetch_loop" /\ call.pc = "loop"
    /\ call.current_ms < call.end_ms
    /\ call' = [call EXCEPT !.since = call.current_ms, !.ohlcv = <<>>,
                            !.appended = FALSE,
                            !.calls = Min2(call.calls + 1, MaxCalls),
                            !.raised = error, !.pc = "returned"]
    /\ UNCHANGED <<table, sched>>

\* the test of the while fails
LoopExit ==
    /\ call # Idle /\ call.op = "fetch_loop" /\ call.pc = "loop"
    /\ ~(call.current_ms < call.end_ms)
    /\ call' = [call EXCEPT !.pc = "returned"]
    /\ UNCHANGED <<table, sched>>

\* fetch_data returns to its caller
LoopReturn ==
    /\ call # Idle /\ call.op = "fetch_loop" /\ call.pc = "returned"
    /\ call' = Idle
    /\ UNCHANGED <<table, sched>>

LoopNext ==
    \/ \E start_ms \in {0, 60000}, end_ms \in {60000, 120000, 180000}, limit \in {1, 2} :
          LoopBegin(start_ms, end_ms, limit)
    \/ \E ohlcv \in LoopPages : LoopStep(ohlcv)
    \/ \E error \in {"BaseError", "Exception"} : LoopRaise(error)
    \/ LoopExit
    \/ LoopReturn

LoopSpec == Init /\ [][LoopNext]_vars

LoopFairSpec == LoopSpec /\ WF_vars((\E ohlcv \in LoopPages : LoopStep(ohlcv)) \/ LoopExit)

\* ------------------------------------------------------------------ timeframes
\* the _get_timeframe_ms of the adapter of an exchange
TimeframeMs(exchange, timeframe) ==
    IF exchange = "okx"
    THEN _get_timeframe_ms(timeframe)
    ELSE Binance_get_timeframe_ms(timeframe)

\* the newest candle of a series is at `last_timestamp`: where the
\* coordinator starts the next fetch of the series, and where the adapter
\* puts its cursor after a page ending in that candle
Advance(exchange, timeframe, last_timestamp) ==
    /\ call = Idle
    /\ call' = [op |-> "advance", exchange |-> exchange, timeframe |-> timeframe,
                last_timestamp |-> last_timestamp,
                delta |-> _get_timeframe_delta(timeframe),
                timeframe_ms |-> TimeframeMs(exchange, timeframe),
                fetch_start_time |-> FetchStartTime({last_timestamp}, timeframe, Dt(0, 0)),
                current_ms |-> NextCursor(0, <<[timestamp |-> last_timestamp]>>,
                                          TimeframeMs(exchange, timeframe))]
    /\ UNCHANGED <<table, sched>>

TimeframeNext ==
    \/ \E exchange \in CryptoFetchers, timeframe \in {"1m", "5m", "15m", "30m", "1h", "2h", "1d", "4h", "1w"}, m \in (1..6) :
          Advance(exchange, timeframe, m * 60000)
    \/ Return

TimeframeSpec == Init /\ [][TimeframeNext]_vars

\* ------------------------------------------------------------------ scripted upstream
\* the loop `while current_ms < end_ms` of fetch_data against the script
RECURSIVE ScriptedLoop(_, _, _, _, _, _, _)
ScriptedLoop(script, page, end_ms, timeframe_ms, current_ms, all_data, since) ==
    IF ~(current_ms < end_ms)
    THEN [all_data |-> all_data, since |-> since, raised |-> "none"]
    ELSE IF Len(since) >= Len(script)
    THEN [all_data |-> all_data, since |-> Append(since, current_ms), raised |-> "none"]
    ELSE IF Filtered(script[Len(since) + 1], end_ms) = <<>>
    THEN [all_data |-> all_data, since |-> Append(since, current_ms), raised |-> "none"]
    ELSE IF Len(script[Len(since) + 1]) < page
    THEN [all_data |-> all_data \o Filtered(script[Len(since) + 1], end_ms),
          since |-> Append(since, current_ms), raised |-> "none"]
    ELSE ScriptedLoop(script, page, end_ms, timeframe_ms,
                      NextCursor(current_ms, Filtered(script[Len(since) + 1], end_ms),
                                 timeframe_ms),
                      all_data \o Filtered(script[Len(since) + 1], end_ms),
                      Append(since, current_ms))

\* fetch_data(symbol, '1m', start_time, end_time, limit) against the script
FetchScripted(script, start_ms, end_ms, limit) ==
    /\ call = Idle
    /\ LET loop == ScriptedLoop(script, limit, end_ms, _get_timeframe_ms("1m"),
                                start_ms, <<>>, <<>>)
           got == Collected([all_data |-> [i \in 1..Len(loop.all_data) |->
                                              [timestamp |-> loop.all_data[i].timestamp,
                                               open |-> V1.open, high |-> V1.high,
                                               low |-> V1.low, close |-> V1.close,
                                               volume |-> V1.volume]],
                             since |-> loop.since, raised |-> loop.raised],
                            {"Exception"})
       IN call' = [op |-> "fetch_scripted", script |-> script, start_ms |-> start_ms,
                   end_ms |-> end_ms, limit |-> limit, all_data |-> loop.all_data,
                   data |-> got.data, since |-> got.since]
    /\ UNCHANGED <<table, sched>>

ScriptNext ==
    \/ \E script \in {<<>>} \cup {<<a>> : a \in LoopPages}
                           \cup {<<a, b>> : a \in LoopPages, b \in LoopPages},
          start_ms \in {0, 60000}, end_ms \in {60000, 120000, 180000},
          limit \in {1, 2} : FetchScripted(script, start_ms, end_ms, limit)
    \/ Return

ScriptSpec == Init /\ [][ScriptNext]_vars

\* ------------------------------------------------------------------ interleaved sync runs
\* two runs of the body of the loops of fetch_crypto_data for one SeriesKey
\* at the same time: the batch job on the background thread and a call on
\* the caller's thread. Each save_data has a connection of its own; sqlite
\* lets one connection write at a time, from its first INSERT to its commit
Runners == {"background", "caller"}

InterleavedBegin(k, now, days) ==
    /\ call = Idle
    /\ call' = [op |-> "interleaved", key |-> k, now |-> now, days |-> days,
                lock |-> "none", runs |-> [t \in Runners |->
                    [pc |-> "latest", latest_timestamp |-> None,
                     fetch_start_time |-> Dt(0, 0), data |-> <<>>, i |-> 1,
                     insert_count |-> 0, pending |-> EmptyBag, locked |-> 0,
                     ret |-> 0]],
                before |-> table]
    /\ UNCHANGED <<table, sched>>

Interleaving(t) == call # Idle /\ call.op = "interleaved" /\ t \in Runners

\* get_latest_timestamp, the fetch window and the test that skips the key
RunLatest(t) ==
    /\ Interleaving(t) /\ call.runs[t].pc = "latest"
    /\ LET latest_timestamp == get_latest_timestamp(table, call.key.symbol,
                                                    call.key.exchange, call.key.timeframe)
           fetch_start_time == FetchStartTime(latest_timestamp, call.key.timeframe,
                                              DtPlus(call.now, 0 - DaysMs(call.days)))
       IN call' = [call EXCEPT !.runs[t].latest_timestamp = latest_timestamp,
                               !.runs[t].fetch_start_time = fetch_start_time,
                               !.runs[t].pc = IF DtGeq(fetch_start_time, call.now)
                                              THEN "done" ELSE "fetch"]
    /\ UNCHANGED <<table, sched>>

\* fetcher.fetch_data and `if not data.empty`
RunFetch(t) ==
    /\ Interleaving(t) /\ call.runs[t].pc = "fetch"
    /\ LET data == fetch_data(call.key.exchange, call.key.symbol, call.key.timeframe,
                              call.runs[t].fetch_start_time, call.now, 1000, NoFault).data
       IN call' = [call EXCEPT !.runs[t].data = data,
                               !.runs[t].pc = IF data = <<>> THEN "done" ELSE "save"]
    /\ UNCHANGED <<table, sched>>

\* cursor.execute of the next record: the connection sees the committed rows
\* and its own, and holds the write lock from here on
RunExecute(t) ==
    /\ Interleaving(t) /\ call.runs[t].pc = "save"
    /\ call.runs[t].i <= Len(call.runs[t].data)
    /\ call.lock \in {"none", t}
    /\ LET record == Record(call.runs[t].data[call.runs[t].i], call.key.symbol,
                            call.key.exchange, call.key.timeframe)
           res == InsertOrIgnore(table (+) call.runs[t].pending, record)
       IN call' = [call EXCEPT
                      !.lock = t,
                      !.runs[t].i = @ + 1,
                      !.runs[t].pending = IF res.rowcount > 0
                                          THEN @ (+) SetToBag({record}) ELSE @,
                      !.runs[t].insert_count = IF res.rowcount > 0 THEN @ + 1 ELSE @]
    /\ UNCHANGED <<table, sched>>

\* cursor.execute of the next record while the other connection holds the
\* write lock, and the busy timeout runs out: sqlite3.OperationalError, which
\* the handler of the loop prints before it goes on
RunExecuteLocked(t) ==
    /\ Interleaving(t) /\ call.runs[t].pc = "save"
    /\ call.runs[t].i <= Len(call.runs[t].data)
    /\ call.lock \in Runners \ {t}
    /\ call' = [call EXCEPT !.runs[t].i = @ + 1, !.runs[t].locked = @ + 1]
    /\ UNCHANGED <<table, sched>>

\* conn.commit() and return insert_count
RunCommit(t) ==
    /\ Interleaving(t) /\ call.runs[t].pc = "save"
    /\ call.runs[t].i > Len(call.runs[t].data)
    /\ table' = table (+) call.runs[t].pending
    /\ call' = [call EXCEPT !.lock = IF call.lock = t THEN "none" ELSE @,
                            !.runs[t].pending = EmptyBag,
                            !.runs[t].ret = call.runs[t].insert_count,
                            !.runs[t].pc = "done"]
    /\ UNCHANGED sched

\* both runs are over
InterleavedReturn ==
    /\ call # Idle /\ call.op = "interleaved"
    /\ \A t \in Runners : call.runs[t].pc = "done"
    /\ call' = Idle
    /\ UNCHANGED <<table, sched>>

InterleavedNext ==
    \/ \E k \in SyncKeys, now \in Clock, days \in Lookbacks : InterleavedBegin(k, now, days)
    \/ \E t \in Runners : RunLatest(t)
    \/ \E t \in Runners : RunFetch(t)
    \/ \E t \in Runners : RunExecute(t)
    \/ \E t \in Runners : RunExecuteLocked(t)
    \/ \E t \in Runners : RunCommit(t)
    \/ InterleavedReturn

InterleavedSpec == Init /\ [][InterleavedNext]_vars

\* ------------------------------------------------------------------ two engines
\* two DataFeedEngine objects in one process: each has its own self.running
\* and self.scheduler_thread, and both use the one job list of the
\* `schedule` module (schedule.every, schedule.run_pending, schedule.clear
\* all work on its default scheduler)
Engines == {"first", "second"}

EnginesInit ==
    /\ table = EmptyBag
    /\ call = Idle
    /\ running = [e \in Engines |-> FALSE]
    /\ scheduler_thread = [e \in Engines |-> None]
    /\ jobs = <<>>
    /\ threads = <<>>
    /\ main = [pc |-> "idle", last |-> "none", engine |-> "none"]

\* engine.start_scheduler() on an engine that is not Running
EngineStart(e) ==
    /\ ~running[e]
    /\ Len(threads) < MaxThreads
    /\ jobs' = Append(jobs, [id |-> Len(threads) + 1, engine |-> e, due |-> FALSE])
    /\ running' = [running EXCEPT ![e] = TRUE]
    /\ threads' = Append(threads, [engine |-> e, pc |-> "check"])
    /\ scheduler_thread' = [scheduler_thread EXCEPT ![e] = {Len(threads) + 1}]
    /\ main' = [pc |-> "idle", last |-> "start", engine |-> e]
    /\ UNCHANGED <<table, call>>

\* engine.start_scheduler() on an engine that is Running
EngineStartRunning(e) ==
    /\ running[e]
    /\ main' = [pc |-> "idle", last |-> "start_running", engine |-> e]
    /\ UNCHANGED <<table, call, running, scheduler_thread, jobs, threads>>

\* engine.stop_scheduler(): self.running = False, schedule.clear(), join
EngineStop(e) ==
    /\ running' = [running EXCEPT ![e] = FALSE]
    /\ jobs' = <<>>
    /\ main' = [pc |-> "idle", last |-> "stop", engine |-> e]
    /\ UNCHANGED <<table, call, scheduler_thread, threads>>

\* the interval of a scheduled job elapses
EngineTick ==
    /\ \E j \in DOMAIN jobs :
          /\ ~jobs[j].due
          /\ jobs' = [jobs EXCEPT ![j].due = TRUE]
    /\ UNCHANGED <<table, call, running, scheduler_thread, threads, main>>

\* _run_scheduler of the engine of the thread: while self.running
EngineThreadCheck(t) ==
    /\ threads[t].pc = "check"
    /\ threads' = [threads EXCEPT
                      ![t].pc = IF running[threads[t].engine] THEN "pending" ELSE "done"]
    /\ UNCHANGED <<table, call, running, scheduler_thread, jobs, main>>

\* schedule.run_pending(): a job that is due, of whichever engine, is run
\* (its batch over the SeriesKeys of the configuration) and is due again one
\* interval later; when none is due run_pending comes back
EngineRunPending(t) ==
    /\ threads[t].pc = "pending"
    /\ \/ \E j \in DOMAIN jobs, now \in Clock :
             /\ jobs[j].due
             /\ table' = FetchCryptoLoop(table, JobKeys, 1, NoResults(<<"okx">>), <<>>,
                                         now, 7, NoRaise).table
             /\ jobs' = [jobs EXCEPT ![j].due = FALSE]
             /\ UNCHANGED threads
       \/ /\ \A j \in DOMAIN jobs : ~jobs[j].due
          /\ threads' = [threads EXCEPT ![t].pc = "sleep"]
          /\ UNCHANGED <<table, jobs>>
    /\ UNCHANGED <<call, running, scheduler_thread, main>>

\* _run_scheduler: time.sleep(30) is over
EngineThreadWake(t) ==
    /\ threads[t].pc = "sleep"
    /\ threads' = [threads EXCEPT ![t].pc = "check"]
    /\ UNCHANGED <<table, call, running, scheduler_thread, jobs, main>>

EnginesNext ==
    \/ \E e \in Engines : EngineStart(e)
    \/ \E e \in Engines : EngineStartRunning(e)
    \/ \E e \in Engines : EngineStop(e)
    \/ EngineTick
    \/ \E t \in DOMAIN threads : EngineThreadCheck(t)
    \/ \E t \in DOMAIN threads : EngineRunPending(t)
    \/ \E t \in DOMAIN threads : EngineThreadWake(t)

EnginesSpec == EnginesInit /\ [][EnginesNext]_vars

\* ------------------------------------------------------------------ limited reads
LimitNext ==
    \/ \E data \in DataFrames, k \in SyncKeys : SaveData(data, k)
    \/ \E k \in SyncKeys, now \in Clock, days \in Lookbacks : FetchCryptoData(k, now, days)
    \/ \E k \in SyncKeys, s \in TimeBounds, e \in TimeBounds, l \in {None, {0 - 1}, {0}, {1}, {2}, {3}} :
          GetData(k, s, e, l)
    \/ Return

LimitSpec == Init /\ [][LimitNext]_vars

\* ------------------------------------------------------------------ payloads
QualityNext ==
    \/ \E k \in {[symbol |-> sym, exchange |-> ex, timeframe |-> "1m"] :
                      sym \in {"DOGE/USDT", "XRP/USDT"}, ex \in CryptoFetchers},
          now \in {Dt(60000, 0), Dt(120000, 0), Dt(180000, 0)}, days \in Lookbacks :
          SyncRun(k, now, days, NoFault)
    \/ Return

QualitySpec == Init /\ [][QualityNext]_vars

\* ------------------------------------------------------------------ fetcher construction
\* the series an adapter is asked for, and the window
AdapterKey(exchange) ==
    IF exchange = "tushare"
    THEN [symbol |-> "000001.SZ", exchange |-> exchange, timeframe |-> "1d"]
    ELSE [symbol |-> "BTC/USDT", exchange |-> exchange, timeframe |-> "1m"]

AdapterEnds(exchange) ==
    IF exchange = "tushare"
    THEN {Dt(86400000, 0), Dt(172800000, 0)}
    ELSE {Dt(60000, 0), Dt(120000, 0)}

\* a fetcher is constructed and fetch_data is called on it
AdapterFetch(exchange, credential, ctor, end_time) ==
    /\ call = Idle
    /\ LET k == AdapterKey(exchange)
           handle == Fetcher(exchange, credential, ctor)
       IN call' = [op |-> "adapter_fetch", key |-> k, credential |-> credential,
                   ctor |-> ctor, handle |-> handle, end_time |-> end_time,
                   got |-> Fetcher_fetch_data(handle, exchange, k.symbol, k.timeframe,
                                              Dt(0, 0), end_time, 1000, NoFault)]
    /\ UNCHANGED <<table, sched>>

\* a crypto fetcher is constructed and the body of the loops of
\* fetch_crypto_data runs against it
AdapterSync(exchange, credential, ctor, now, days) ==
    /\ call = Idle
    /\ LET k == AdapterKey(exchange)
           handle == Fetcher(exchange, credential, ctor)
           Ran(run) ==
               /\ table' = run.table
               /\ call' = [op |-> "adapter_sync", key |-> k, credential |-> credential,
                           ctor |-> ctor, handle |-> handle, now |-> now,
                           got |-> [data |-> run.data, since |-> run.since],
                           fetched |-> run.fetched, ret |-> run.ret, before |-> table]
       IN Ran(SyncSeriesThrough(handle, table, k.symbol, k.exchange, k.timeframe,
                                now, days, NoFault))
    /\ UNCHANGED sched

AdapterNext ==
    \/ \E exchange \in {"okx", "binance", "tushare"}, credential \in {"", "your_api_key", "live"}, ctor \in {"ok", "raises"} :
          \E end_time \in AdapterEnds(exchange) :
             AdapterFetch(exchange, credential, ctor, end_time)
    \/ \E exchange \in CryptoFetchers, credential \in {"", "your_api_key", "live"},
          ctor \in {"ok", "raises"}, now \in Clock, days \in Lookbacks :
          AdapterSync(exchange, credential, ctor, now, days)
    \/ Return

AdapterSpec == Init /\ [][AdapterNext]_vars

\* ------------------------------------------------------------------ claims
\* what the claims read of a call
Reads == {"get_data", "engine_get_data", "get_latest_timestamp"}

\* the records save_data makes of the DataFrame of the call
CallRecords ==
    {Record(call.data[i], call.key.symbol, call.key.exchange, call.key.timeframe) :
        i \in 1..Len(call.data)}

\* C1: upsert is idempotent: the same save_data call issued a second time
\* leaves the table exactly as the first call left it and returns 0.
C1_UpsertIdempotent ==
    (call.op = "save_data" /\ call.attempt > 1) =>
        (table = call.before /\ call.ret = 0)

\* C1 witness: a second save_data of a two-row DataFrame whose rows are stored.
C1_Witness ==
    /\ call.op = "save_data"
    /\ call.attempt = 2
    /\ Len(call.data) = 2
    /\ CallRecords \cap Rows(table) # {}

\* C2: in every reachable table no natural key (symbol, exchange, timeframe,
\* timestamp) is stored twice.
C2_NaturalKeyUnique ==
    \A r \in Rows(table) :
        /\ CopiesIn(r, table) = 1
        /\ \A q \in Rows(table) : NaturalKey(q) = NaturalKey(r) => q = r

\* C2 witness: a save_data whose records all met an already stored natural
\* key, in a table of several rows.
C2_Witness ==
    /\ call.op = "save_data"
    /\ Len(call.data) > 0
    /\ call.ret = 0
    /\ \A rec \in CallRecords :
          \E r \in Rows(call.before) : NaturalKey(r) = NaturalKey(rec)
    /\ BagCardinality(table) > 1

\* C3: a stored candle is immutable and persistent: every row the table held
\* before a save_data, a read or a sync run is still there afterwards, with
\* the same values (only clear_data removes rows).
C3_StoredCandleImmutable ==
    (call.op \in Reads \cup {"save_data", "fetch_crypto_data"}) =>
        \A r \in Rows(call.before) : CopiesIn(r, table) = CopiesIn(r, call.before)

\* C3 witness: a save_data that carried other values for a stored natural key.
C3_Witness ==
    /\ call.op = "save_data"
    /\ \E rec \in CallRecords : \E r \in Rows(call.before) :
          NaturalKey(r) = NaturalKey(rec) /\ r # rec

\* C4: save_data returns the number of rows it added to the table.
C4_SaveDataCountsNewRows ==
    call.op = "save_data" =>
        call.ret = BagCardinality(table) - BagCardinality(call.before)

\* C4 witness: a DataFrame whose two index values fall into one millisecond,
\* saved over a table that held another candle of the series: one new row.
C4_Witness ==
    /\ call.op = "save_data"
    /\ Len(call.data) = 2
    /\ call.data[1].index # call.data[2].index
    /\ TimestampMs(call.data[1].index) = TimestampMs(call.data[2].index)
    /\ call.ret = 1
    /\ SeriesRows(call.before, call.key.symbol, call.key.exchange,
                  call.key.timeframe) # {}

\* C5: get_data returns its rows in strictly ascending timestamp order.
C5_GetDataAscending ==
    call.op \in {"get_data", "engine_get_data"} =>
        \A i \in 1..(Len(call.ret) - 1) :
            /\ DtGeq(call.ret[i + 1].index, call.ret[i].index)
            /\ call.ret[i + 1].index # call.ret[i].index

\* C5 witness: a get_data that returned more than one row.
C5_Witness ==
    /\ call.op = "get_data"
    /\ Len(call.ret) > 1

\* C6: every row get_data returns is a stored row of exactly the symbol,
\* exchange and timeframe asked for.
C6_GetDataOnlyOwnSeries ==
    call.op \in {"get_data", "engine_get_data"} =>
        \A i \in 1..Len(call.ret) :
            \E r \in Rows(table) :
                /\ r.symbol = call.key.symbol
                /\ r.exchange = call.key.exchange
                /\ r.timeframe = call.key.timeframe
                /\ Selected(r) = call.ret[i]

\* C6 witness: rows came back while the table also held rows of a series
\* with another timeframe and of a series with another symbol or exchange,
\* which are not among them.
C6_Witness ==
    /\ call.op = "get_data"
    /\ call.start_time = None /\ call.end_time = None /\ call.limit = None
    /\ Len(call.ret) > 0
    /\ \E r \in Rows(table) :
          /\ r.timeframe # call.key.timeframe
          /\ r.symbol = call.key.symbol /\ r.exchange = call.key.exchange
          /\ \A i \in 1..Len(call.ret) : call.ret[i] # Selected(r)
    /\ \E r \in Rows(table) :
          /\ r.symbol # call.key.symbol \/ r.exchange # call.key.exchange
          /\ \A i \in 1..Len(call.ret) : call.ret[i] # Selected(r)

\* the stored rows of the series of the call with lo <= timestamp <= hi,
\* a bound of None leaving that side open
InRange(lo, hi) ==
    {r \in Rows(table) :
        /\ r.symbol = call.key.symbol
        /\ r.exchange = call.key.exchange
        /\ r.timeframe = call.key.timeframe
        /\ \A b \in lo : b <= r.timestamp
        /\ \A b \in hi : r.timestamp <= b}

ReturnsExactly(S) ==
    /\ Len(call.ret) = Cardinality(S)
    /\ {call.ret[i] : i \in 1..Len(call.ret)} = {Selected(r) : r \in S}

C8_LatestTimestampIsMax ==
    call.op = "get_latest_timestamp" =>
        LET stamps == {r.timestamp : r \in InRange(None, None)}
        IN /\ (call.ret = None) <=> (stamps = {})
           /\ call.ret \subseteq stamps
           /\ Cardinality(call.ret) <= 1
           /\ \A t \in call.ret : \A u \in stamps : u <= t

\* C8 witness: the series holds two rows, and another series holds a row.
C8_Witness ==
    /\ call.op = "get_latest_timestamp"
    /\ call.ret = {60000}
    /\ Cardinality(InRange(None, None)) = 2
    /\ Rows(table) # InRange(None, None)

\* a row matches every filter of the clear_data call that is given
MatchesFilters(r) ==
    /\ \A v \in call.symbol : r.symbol = v
    /\ \A v \in call.exchange : r.exchange = v
    /\ \A v \in call.timeframe : r.timeframe = v

\* C9: clear_data removes exactly the rows that match every given filter,
\* leaves every other row as it was and returns the number of rows removed.
C9_ClearDataExact ==
    call.op = "clear_data" =>
        /\ Rows(table) \subseteq Rows(call.before)
        /\ \A r \in Rows(call.before) :
              CopiesIn(r, table) = IF MatchesFilters(r) THEN 0
                                   ELSE CopiesIn(r, call.before)
        /\ call.ret = BagCardinality(call.before) - BagCardinality(table)

\* C9 witness: two filters given; a row matching both went, a row matching
\* only one of them stayed.
C9_Witness ==
    /\ call.op = "clear_data"
    /\ call.symbol # None /\ call.timeframe # None /\ call.exchange = None
    /\ call.ret > 0
    /\ \E r \in Rows(table) :
          (r.symbol \in call.symbol) # (r.timeframe \in call.timeframe)

\* C10: a sync run of a series whose latest stored timestamp is T (0
\* included) starts its fetch window at T + one timeframe duration, and
\* every upstream cursor it uses is greater than T.
C10_SyncStartsAfterLatest ==
    (call.op = "fetch_crypto_data" /\ call.latest_timestamp # None) =>
        \A T \in call.latest_timestamp :
            /\ call.fetch_start_time =
                  DtPlus(FromMs(T), _get_timeframe_delta(call.key.timeframe))
            /\ \A i \in 1..Len(call.since) : call.since[i] > T

\* C11: a sync run whose fetch window starts at or after now calls no
\* adapter, makes no upstream call, leaves the table as it was and reports
\* 0 inserted rows.
C11_SkipWhenCurrent ==
    (call.op = "fetch_crypto_data"
        /\ DtGeq(call.fetch_start_time, call.now)) =>
            /\ ~call.fetched
            /\ call.since = <<>>
            /\ call.data = <<>>
            /\ table = call.before
            /\ call.ret = 0

\* C11 witness: the series is stored up to one timeframe before now, while
\* the exchange holds a candle at now.
C11_Witness ==
    /\ call.op = "fetch_crypto_data"
    /\ call.latest_timestamp # None
    /\ DtGeq(call.fetch_start_time, call.now)
    /\ \E c \in Upstream(call.key.symbol, call.key.timeframe) :
          c.timestamp = TimestampMs(call.now)
    /\ ~call.fetched

\* the window and the page size of the fetch_data call
PageOfCall == Min2(call.limit, PageCap(call.exchange))

\* the upstream candles inside the window of the fetch_data call
WindowCandles ==
    {c \in Upstream(call.symbol, call.timeframe) :
        /\ TimestampMs(call.start_time) <= c.timestamp
        /\ c.timestamp <= TimestampMs(call.end_time)}

\* the timestamps fetch_data returned, in the order returned
ReturnedStamps == [i \in 1..Len(call.data) |-> TimestampMs(call.data[i].index)]

\* C14: a fetch_data with page size K over a window that holds exactly 5K
\* upstream candles returns exactly those candles: 5K rows, each one
\* timeframe after the one before, none missing and none twice.
C14_PaginationComplete ==
    (call.op = "fetch_data" /\ call.fault = NoFault
        /\ Cardinality(WindowCandles) = 5 * PageOfCall) =>
            /\ Len(call.data) = 5 * PageOfCall
            /\ {ReturnedStamps[i] : i \in 1..Len(call.data)} =
                  {c.timestamp : c \in WindowCandles}
            /\ \A i \in 1..(Len(call.data) - 1) :
                  ReturnedStamps[i + 1] =
                      ReturnedStamps[i] + _get_timeframe_ms(call.timeframe)

\* C15: when no upstream call fails, fetch_data returns every upstream
\* candle with start <= timestamp <= end, the candle at end included.
C15_FetchCoversWindow ==
    (call.op = "fetch_data" /\ call.fault = NoFault) =>
        {ReturnedStamps[i] : i \in 1..Len(call.data)} =
            {c.timestamp : c \in WindowCandles}

\* C12: the same fault-free sync run made a second time, the clock and the
\* upstream standing, reports 0 inserted rows and leaves the table exactly
\* as the first run left it.
C12_SecondSyncInsertsNothing ==
    (call.op = "fetch_crypto_data" /\ call.attempt > 1 /\ call.fault = NoFault) =>
        (call.ret = 0 /\ table = call.before)

\* C12 witness: the second run of a series of more than one page went to the
\* upstream again.
C12_Witness ==
    /\ call.op = "fetch_crypto_data"
    /\ call.attempt = 2
    /\ call.fault = NoFault
    /\ Len(call.since) > 0
    /\ BagCardinality(table) > PageCap(call.key.exchange)

\* lookback / timeframe of the sync run
ExpectedRows == DaysMs(call.days) \div _get_timeframe_ms(call.key.timeframe)

\* the upstream holds a candle for every timeframe duration of the window
\* of the sync run
WindowServed ==
    /\ TimestampMs(DtPlus(call.now, 0 - DaysMs(call.days))) >= 0
    /\ TimestampMs(call.now) <=
          UpstreamLast(call.key.symbol) * _get_timeframe_ms(call.key.timeframe)

\* C13: from an empty store, a fault-free sync run with lookback L against
\* an upstream holding one candle per timeframe duration inserts
\* L / timeframe rows, give or take one.
C13_SyncFromEmptyFillsLookback ==
    (call.op = "fetch_crypto_data" /\ call.fault = NoFault
        /\ call.before = EmptyBag /\ WindowServed) =>
            /\ call.ret >= ExpectedRows - 1
            /\ call.ret <= ExpectedRows + 1
            /\ BagCardinality(table) = call.ret

\* C13 witness: 7 days of an hourly series, fetched in more than one
\* upstream page: 168 rows.
C13_Witness ==
    /\ call.op = "fetch_crypto_data"
    /\ call.fault = NoFault
    /\ call.before = EmptyBag
    /\ call.days = 7 /\ call.key.timeframe = "1h"
    /\ Len(call.since) > 1
    /\ call.ret = 168

\* the upstream candles of the pages before the failing call of the sync
\* run: the first (n - 1) * page candles from the start of the fetch window
PagesBeforeFault ==
    LET page == Min2(1000, PageCap(call.key.exchange))
        from == {c \in Upstream(call.key.symbol, call.key.timeframe) :
                    c.timestamp >= TimestampMs(call.fetch_start_time)}
    IN {c \in from :
           Cardinality({d \in from : d.timestamp < c.timestamp})
               < (call.fault.call - 1) * page}

\* the adapter returned exactly the candles of S and the sync run stored them
ReturnedAndCommitted(S) ==
    /\ {TimestampMs(call.data[i].index) : i \in 1..Len(call.data)} =
          {c.timestamp : c \in S}
    /\ Len(call.data) = Cardinality(S)
    /\ \A i \in 1..Len(call.data) :
          Record(call.data[i], call.key.symbol, call.key.exchange,
                 call.key.timeframe) \in Rows(table)
    /\ BagCardinality(table) = BagCardinality(call.before) + call.ret
    /\ \A r \in Rows(call.before) : r \in Rows(table)

\* the n-th upstream call of the sync run was made and failed
FaultHit ==
    /\ call.op = "fetch_crypto_data"
    /\ call.fault # NoFault
    /\ Len(call.since) = call.fault.call

\* C16 (as claimed): whatever error the n-th upstream call raises, the rows
\* of pages 1..n-1 are returned by the adapter and stored by the sync run.
C16_PartialSurvivesAnyError ==
    FaultHit => ReturnedAndCommitted(PagesBeforeFault)

\* C16 (amended): if the n-th upstream call raises a ccxt.BaseError, the rows
\* of pages 1..n-1 are returned by the adapter and stored by the sync run;
\* if it raises any other Exception the adapter returns nothing and the
\* table stays as it was; either way the sync run goes on to its end.
C16_PartialSurvivesBaseError ==
    FaultHit =>
        /\ call.fetched
        /\ call.fault.error = "BaseError" => ReturnedAndCommitted(PagesBeforeFault)
        /\ call.fault.error = "Exception" =>
              (call.data = <<>> /\ call.ret = 0 /\ table = call.before)

\* C16 witness: the third upstream call raised a ccxt.BaseError; the 200
\* rows of the first two pages are stored.
C16_Witness ==
    /\ FaultHit
    /\ call.fault = Fault(3, "BaseError")
    /\ Len(call.data) = 200
    /\ call.ret = 200

\* the keys of the batch call without the key whose step raised
OtherKeys ==
    LET j == call.inject.index
    IN SubSeq(call.keys, 1, j - 1) \o SubSeq(call.keys, j + 1, Len(call.keys))

\* the same batch, from the same table, without that key and nothing raising
WithoutFailingKey ==
    FetchCryptoLoop(call.before, OtherKeys, 1, NoResults(call.exchanges), <<>>,
                    call.now, call.days, NoRaise)

\* a step of a key of the batch call raised
KeyRaised ==
    /\ call.op = "fetch_crypto_batch"
    /\ call.inject # NoRaise
    /\ \A i \in 1..Len(call.log) : call.log[i].key # call.keys[call.inject.index]

\* C17: when a step of one key of a batch raises, the batch still returns,
\* and every other key is processed in the same order, with the same insert
\* counts, the same returned totals and the same table as in a batch without
\* that key.
C17_FailingKeyIsolated ==
    KeyRaised =>
        /\ call.log = WithoutFailingKey.log
        /\ [i \in 1..Len(call.log) |-> call.log[i].key] = OtherKeys
        /\ call.ret = WithoutFailingKey.results
        /\ table = WithoutFailingKey.table

\* C17 witness: the key that raised stands between two others that
\* inserted rows.
C17_Witness ==
    /\ KeyRaised
    /\ \E i \in 1..Len(call.log) :
          /\ i < call.inject.index
          /\ call.log[i].ret > 0
    /\ \E i \in 1..Len(call.log) :
          /\ i >= call.inject.index
          /\ call.log[i].ret > 0

\* the caller is inside stop_scheduler
Stopping == main.pc \in {"stop_flag", "stop_cleared"}

\* stop_scheduler was the last call and it has returned
Stopped == main.pc = "idle" /\ main.last = "stop"

\* C18: at most one scheduled batch job (_scheduled_fetch) is executing at
\* any time, after any sequence of start_scheduler calls, stop_scheduler
\* calls and ticks, a stop followed by a start before the previous thread
\* has exited included
C18_NoOverlappingJobs == Cardinality(Executing) <= 1

\* a step leaves every batch job that is in flight and has SeriesKeys left
\* where it is or takes it to its next SeriesKey
JobsContinue ==
    \A t \in DOMAIN threads :
        (threads[t].pc = "job" /\ threads[t].i <= Len(JobKeys))
            => /\ threads'[t].pc = "job"
               /\ threads'[t].job = threads[t].job
               /\ threads'[t].i \in {threads[t].i, threads[t].i + 1}

\* C19: stop_scheduler always returns, whether or not the batch job in
\* flight has finished, and it never aborts that job, which goes on through
\* its remaining SeriesKeys
C19_StopReturnsJobContinues ==
    /\ Stopping ~> (main.pc = "idle")
    /\ [][JobsContinue]_vars

\* stop_scheduler has returned while a batch job is in flight that has done
\* its first SeriesKey and has another one left
C19_Witness ==
    /\ Stopped
    /\ \E t \in DOMAIN threads : threads[t].pc = "job" /\ threads[t].i = Len(JobKeys)

\* C20: after stop_scheduler has returned no new batch job begins until
\* start_scheduler is called again, however the stop call interleaved with
\* the polling loop of the background thread
C20_StoppedIsTerminal ==
    [][Stopped => \A t \in DOMAIN threads :
                      threads[t].pc # "job" => threads'[t].pc # "job"]_vars

\* stop_scheduler has returned while a background thread that saw
\* self.running set is about to call run_pending
C20_Witness ==
    /\ Stopped
    /\ \E t \in DOMAIN threads : threads[t].pc = "pending"


\* the threads in the loop of _run_scheduler whose last batch job raised
Raised == {t \in DOMAIN threads : threads[t].raised /\ threads[t].pc # "done"}

\* a batch job has just begun
JobBegins == \E t \in DOMAIN threads : threads[t].pc = "job" /\ threads[t].i = 1

\* the step in which the batch job of a thread raises leaves the thread in
\* its loop and self.running as it is
RaiseKeepsRunning ==
    \A t \in DOMAIN threads :
        (~threads[t].raised /\ threads'[t].raised)
            => threads'[t].pc = "sleep" /\ running' = running

\* C21: an exception raised inside a scheduled batch run does not kill the
\* background thread and does not leave Running; while the scheduler stays
\* Running the batch job fires again at the next interval tick
C21_RaisedJobFiresAgain ==
    /\ [][RaiseKeepsRunning]_vars
    /\ (Raised # {} /\ running) ~> (JobBegins \/ ~running)

\* a batch job begins on a thread whose previous batch job has raised, the
\* scheduler running all along with this one thread
C21_Witness ==
    /\ running
    /\ Len(threads) = 1
    /\ main.last = "start"
    /\ threads[1].pc = "pending"
    /\ threads[1].raised
    /\ \E j \in DOMAIN jobs : jobs[j].due

\* a call on a freshly constructed fetcher
AdapterCall == call.op \in {"adapter_fetch", "adapter_sync"}

\* C22: an adapter that was never successfully initialized returns an empty
\* sequence from fetch_data without raising and without an upstream call; a
\* sync run against it leaves the store unchanged and reports 0 inserted rows
C22_UninitializedFetchesNothing ==
    (AdapterCall /\ call.handle = None)
        => /\ call.got.data = <<>>
           /\ call.got.since = <<>>
           /\ call.op = "adapter_fetch" => call.got.raised = "none"
           /\ call.op = "adapter_sync"
                 => table = call.before /\ call.ret = 0

\* a sync has run against a crypto fetcher whose constructor raised, for a
\* series the upstream holds candles of
C22_Witness ==
    /\ call.op = "adapter_sync"
    /\ call.handle = None
    /\ call.fetched
    /\ Upstream(call.key.symbol, call.key.timeframe) # {}

\* C23: every adapter constructed with absent or placeholder credentials is
\* in the never-initialized state: every later fetch returns an empty
\* sequence with no upstream call
C23_NoCredentialsNeverInitialized ==
    (AdapterCall /\ call.credential \in {"", "your_api_key"})
        => /\ call.handle = None
           /\ call.got.data = <<>>
           /\ call.got.since = <<>>

\* the candle the upstream holds for a stored row or a row of a DataFrame
PayloadOf(symbol, timeframe, ms) ==
    CHOOSE c \in Upstream(symbol, timeframe) : c.timestamp = ms

\* every field of the candle is a number in the upstream payload
WellFormed(c) ==
    {c.open, c.high, c.low, c.close, c.volume} \cap {NonNumeric, Missing} = {}

\* the rows of the DataFrame of the call that come from a well-formed candle
WellFormedFetched ==
    {i \in 1..Len(call.data) :
        WellFormed(PayloadOf(call.key.symbol, call.key.timeframe,
                             TimestampMs(call.data[i].index)))}

\* C24: a candle with a non-numeric or missing open, high, low, close or
\* volume in the upstream payload is never in the store, and every
\* well-formed candle of the same fetch is stored
C24_MalformedDroppedRestStored ==
    /\ \A r \in Rows(table) :
          /\ WellFormed(PayloadOf(r.symbol, r.timeframe, r.timestamp))
          /\ NotANumber \notin {r.open, r.high, r.low, r.close, r.volume}
    /\ (call.op = "fetch_crypto_data" /\ call.fetched)
          => \A i \in WellFormedFetched :
                Record(call.data[i], call.key.symbol, call.key.exchange,
                       call.key.timeframe) \in Rows(table)

\* a fetch has brought a malformed candle and a well-formed one after it;
\* the well-formed one was inserted by this run
C24_Witness ==
    /\ call.op = "fetch_crypto_data"
    /\ call.fetched
    /\ \E i \in 1..Len(call.data), j \in WellFormedFetched :
          /\ i \notin WellFormedFetched
          /\ i < j
          /\ Record(call.data[j], call.key.symbol, call.key.exchange,
                    call.key.timeframe) \notin Rows(call.before)
    /\ call.ret = Cardinality(WellFormedFetched)

\* C29: every candle in the store has non-negative open, high, low, close
\* and volume, in every reachable state of the store
C29_StoredFieldsNonNegative ==
    \A r \in Rows(table) :
        r.open >= 0 /\ r.high >= 0 /\ r.low >= 0 /\ r.close >= 0 /\ r.volume >= 0

\* a write to the store failed for the key of the batch call the failure was
\* set for: save_data raised, or cursor.execute raised for one of its records
WriteFailed ==
    /\ call.op = "fetch_crypto_batch"
    /\ call.inject.step \in {"save", "execute"}
    /\ \/ KeyRaised
       \/ \E i \in 1..Len(call.log) : call.log[i].failed > 0

\* C25: a write failure while upserting the candles of one SeriesKey is
\* propagated to the coordinator for that key (the coordinator observes the
\* failure for that key), and the remaining keys of the batch are processed
C25_WriteFailurePropagates ==
    WriteFailed =>
        /\ KeyRaised
        /\ [i \in 1..Len(call.log) |-> call.log[i].key] = OtherKeys

\* C26: when the first read of a load is empty and the adapter of the key
\* supplies candles for the requested range, the load commits them to the
\* store and the retry read returns those candles
C26_ReadThroughReturnsFetched ==
    (call.op = "load_data" /\ call.first = <<>> /\ call.fetched # <<>>) =>
        /\ call.ret # None
        /\ {TimestampMs(call.data[i].index) : i \in 1..Len(call.data)}
              = {TimestampMs(call.fetched[i].index) : i \in 1..Len(call.fetched)}

InLoop == call # Idle /\ call.op = "fetch_loop"

\* C27: whatever pages the upstream returns, a paginated fetch over a finite
\* window makes finitely many upstream calls and then returns
C27_LoopTerminates ==
    (InLoop /\ call.pc = "loop") ~> (InLoop /\ call.pc = "returned")

\* C30: in every iteration that appends rows the next cursor is the
\* timestamp of the last kept row plus one timeframe duration; when the page
\* holds only rows at or after the requested cursor, the next cursor is
\* beyond the requested one
C30_CursorAdvances ==
    (InLoop /\ call.appended) =>
        LET kept == Filtered(call.ohlcv, call.end_ms)
        IN /\ call.current_ms = kept[Len(kept)].timestamp + call.timeframe_ms
           /\ (\A i \in 1..Len(call.ohlcv) : call.ohlcv[i].timestamp >= call.since)
                 => call.current_ms > call.since

\* a second call of one fetch appended a page with a gap between its rows,
\* all of them at or after the cursor
C30_Witness ==
    /\ InLoop /\ call.appended /\ call.calls >= 2
    /\ Len(Filtered(call.ohlcv, call.end_ms)) = 2
    /\ call.ohlcv[1].timestamp >= call.since
    /\ call.ohlcv[2].timestamp > call.ohlcv[1].timestamp + call.timeframe_ms
    /\ call.current_ms > call.since

\* C28: for every timeframe string the duration the coordinator adds to the
\* latest timestamp equals the milliseconds the OKX and Binance adapters
\* advance the cursor by, and 1m, 5m, 15m, 30m, 1h, 2h, 1d are 60000, 300000,
\* 900000, 1800000, 3600000, 7200000, 86400000 ms
C28_OneTimeframeTable ==
    (call.op = "advance") =>
        /\ call.delta = call.timeframe_ms
        /\ TimestampMs(call.fetch_start_time) = call.current_ms
        /\ call.timeframe = "1m" => call.timeframe_ms = 60000
        /\ call.timeframe = "5m" => call.timeframe_ms = 300000
        /\ call.timeframe = "15m" => call.timeframe_ms = 900000
        /\ call.timeframe = "30m" => call.timeframe_ms = 1800000
        /\ call.timeframe = "1h" => call.timeframe_ms = 3600000
        /\ call.timeframe = "2h" => call.timeframe_ms = 7200000
        /\ call.timeframe = "1d" => call.timeframe_ms = 86400000

\* the coordinator and the Binance adapter moved on from a candle of a day,
\* by a day
C28_Witness ==
    /\ call.op = "advance" /\ call.exchange = "binance" /\ call.timeframe = "1d"
    /\ call.current_ms = call.last_timestamp + 86400000
    /\ TimestampMs(call.fetch_start_time) = call.current_ms

\* the page the i-th upstream call of the fetch_data call returned
PageReturned(i) == fetch_ohlcv(call.symbol, call.timeframe, call.since[i], PageOfCall)

\* C31: after an upstream page that is empty or shorter than the requested
\* page size the fetch makes no further upstream call, and the rows of a
\* short page that lie within the window are kept
C31_LiveEdgeStop ==
    (call.op = "fetch_data") =>
        \A i \in 1..Len(call.since) :
            (call.fault.call # i /\ Len(PageReturned(i)) < PageOfCall) =>
                /\ i = Len(call.since)
                /\ \A n \in 1..Len(PageReturned(i)) :
                      PageReturned(i)[n].timestamp <= TimestampMs(call.end_time) =>
                          \E j \in 1..Len(call.data) :
                              ReturnedStamps[j] = PageReturned(i)[n].timestamp

\* the second upstream call returned a short page with a candle inside the
\* window, and the window goes on beyond it
C31_Witness ==
    /\ call.op = "fetch_data" /\ call.fault = NoFault
    /\ Len(call.since) = 2
    /\ Len(PageReturned(2)) = 1 /\ PageOfCall = 2
    /\ PageReturned(2)[1].timestamp + _get_timeframe_ms(call.timeframe)
          < TimestampMs(call.end_time)
    /\ Len(call.data) = 3

\* C32: whatever pages the upstream returns, the timestamps of the sequence
\* a paginated fetch returns are strictly ascending and none of them is
\* greater than the requested end
C32_FetchedWellFormed ==
    (call.op = "fetch_scripted") =>
        /\ \A i \in 1..(Len(call.data) - 1) :
              TimestampMs(call.data[i].index) < TimestampMs(call.data[i + 1].index)
        /\ \A i \in 1..Len(call.data) : TimestampMs(call.data[i].index) <= call.end_ms

\* two pages out of order, with a timestamp twice and one beyond the end,
\* came back as two rows
C32_Witness ==
    /\ call.op = "fetch_scripted"
    /\ Len(call.script) = 2 /\ Len(call.since) = 2
    /\ \E i \in 1..Len(call.all_data) : \E j \in (i + 1)..Len(call.all_data) :
          call.all_data[i].timestamp >= call.all_data[j].timestamp
    /\ \E i \in 1..Len(call.all_data) : \E j \in (i + 1)..Len(call.all_data) :
          call.all_data[i].timestamp = call.all_data[j].timestamp
    /\ \E n \in 1..2 : \E i \in 1..Len(call.script[n]) :
          call.script[n][i].timestamp > call.end_ms
    /\ Len(call.data) = 2

\* the start of the fetch window the same sync run would have with the
\* lookback `days`
StartWithLookback(days) ==
    FetchStartTime(call.latest_timestamp, call.key.timeframe,
                   DtPlus(call.now, 0 - DaysMs(days)))

\* C33: the latest stored timestamp alone drives the fetch window: with no
\* stored rows the window starts at now minus the lookback; with stored rows
\* its start is the same for every lookback and no cursor of the run is at
\* or before the newest stored row
C33_LatestAloneDrivesWindow ==
    (call.op = "fetch_crypto_data") =>
        /\ call.latest_timestamp = None =>
              call.fetch_start_time = DtPlus(call.now, 0 - DaysMs(call.days))
        /\ call.latest_timestamp # None =>
              /\ \A days \in Lookbacks : StartWithLookback(days) = call.fetch_start_time
              /\ \A i \in 1..Len(call.since) :
                    call.since[i] > TheValue(call.latest_timestamp)

\* the number of rows of a table that belong to the exchange
RowsOfSource(tbl, exchange) ==
    BagCardinality(SubTable(tbl, {r \in Rows(tbl) : r.exchange = exchange}))

\* the sum of the insert counts of the first n keys the batch processed to
\* their end that belong to the exchange
RECURSIVE CountsOfSource(_, _)
CountsOfSource(exchange, n) ==
    IF n = 0
    THEN 0
    ELSE CountsOfSource(exchange, n - 1)
            + (IF call.log[n].key.exchange = exchange THEN call.log[n].ret ELSE 0)

StoredStamps(tbl) ==
    {r.timestamp : r \in SeriesRows(tbl, call.key.symbol, call.key.exchange,
                                    call.key.timeframe)}

\* the table holds every upstream candle of the key of the sync run
\* between the earliest and the latest timestamp it holds for the key
NoGap(tbl) ==
    \A c \in Upstream(call.key.symbol, call.key.timeframe) :
        (/\ \E t \in StoredStamps(tbl) : t <= c.timestamp
         /\ \E t \in StoredStamps(tbl) : c.timestamp <= t)
            => c.timestamp \in StoredStamps(tbl)

\* C35: a fault-free sync run of a key that has rows stored (what an
\* interrupted run committed) resumes at the last committed timestamp plus
\* one timeframe duration, and afterwards the store holds every upstream
\* candle between the earliest and the latest stored timestamp of the key
C35_ResumeLeavesNoGap ==
    (call.op = "fetch_crypto_data" /\ call.fault = NoFault
        /\ call.latest_timestamp # None) =>
            /\ call.fetch_start_time =
                  DtPlus(FromMs(TheValue(call.latest_timestamp)),
                         _get_timeframe_delta(call.key.timeframe))
            /\ call.fetched =>
                  call.since[1] = TheValue(call.latest_timestamp)
                                     + _get_timeframe_ms(call.key.timeframe)
            /\ NoGap(table)

\* the table held the one page an interrupted run had committed, and the
\* run went on from there over more than one page
C35_Witness ==
    /\ call.op = "fetch_crypto_data" /\ call.fault = NoFault
    /\ BagCardinality(call.before) = PageCap(call.key.exchange)
    /\ Len(call.since) > 1
    /\ call.ret > PageCap(call.key.exchange)
    /\ BagCardinality(table) = BagCardinality(call.before) + call.ret

\* both interleaved sync runs are over
BothDone ==
    /\ call.op = "interleaved"
    /\ \A t \in Runners : call.runs[t].pc = "done"

\* C36: when two sync runs of the same SeriesKey interleave, the store ends
\* with no natural key twice, and the insert counts the two runs report add
\* up to the number of rows added
C36_InterleavedSyncsSafe ==
    BothDone =>
        /\ \A r \in Rows(table) : table[r] = 1
        /\ \A r \in Rows(table) : \A q \in Rows(table) :
              NaturalKey(r) = NaturalKey(q) => r = q
        /\ call.runs["background"].ret + call.runs["caller"].ret
              = BagCardinality(table) - BagCardinality(call.before)

\* both runs read the same latest timestamp and fetched the same candles;
\* one of them stored them all and the other none
C36_Witness ==
    /\ BothDone
    /\ call.runs["background"].latest_timestamp = call.runs["caller"].latest_timestamp
    /\ call.runs["background"].data = call.runs["caller"].data
    /\ Len(call.runs["caller"].data) > 1
    /\ call.runs["caller"].locked = 0
    /\ call.runs["caller"].ret = 0
    /\ call.runs["background"].ret = Len(call.runs["background"].data)

\* one start_scheduler call went through, the scheduler is Running, and no
\* stop_scheduler call was made since
StartedOnce == running /\ Len(threads) = 1 /\ main.pc = "idle"

\* the step is a start_scheduler call on a scheduler that is Running
StartOnRunning ==
    /\ running /\ main.pc = "idle"
    /\ main' # main /\ main'.last # "stop"

\* a batch job begins in the step
JobBeginsInStep ==
    \E t \in DOMAIN threads : threads[t].pc # "job" /\ threads'[t].pc = "job"

\* a batch job ends in the step
JobEndsInStep ==
    \E t \in DOMAIN threads : threads[t].pc = "job" /\ threads'[t].pc # "job"

\* C37: start_scheduler on a scheduler that is Running registers no job and
\* spawns no thread; after start calls without a stop in between there is
\* one job and one thread, and an interval tick triggers one batch job: a
\* job begins only when the job is due and none is executing, and when it
\* ends the job is due no more
C37_StartOnRunningIsNoOp ==
    /\ [][StartOnRunning =>
            /\ jobs' = jobs /\ threads' = threads
            /\ scheduler_thread' = scheduler_thread /\ running' = running]_vars
    /\ [](StartedOnce => (Len(jobs) = 1 /\ Cardinality(Executing) <= 1))
    /\ [][(StartedOnce /\ JobBeginsInStep) =>
            (Executing = {} /\ \E j \in DOMAIN jobs : jobs[j].due)]_vars
    /\ [][(StartedOnce /\ JobEndsInStep) =>
            \A j \in DOMAIN jobs' : ~jobs'[j].due]_vars

\* start_scheduler was called again on the Running scheduler, and the tick
\* after it has set off the batch job on the one thread there is
C37_Witness ==
    /\ StartedOnce
    /\ main.last = "start_running"
    /\ Len(jobs) = 1 /\ jobs[1].due
    /\ threads[1].pc = "job" /\ threads[1].i = 1

\* C38: stop_scheduler on one engine does not remove the periodic job of
\* another engine whose scheduler is Running: the job of every Running
\* engine stays registered
C38_EnginesIndependent ==
    (main.last = "stop") =>
        \A e \in Engines :
            running[e] => \E j \in DOMAIN jobs : jobs[j].engine = e

\* get_latest_timestamp of a SeriesKey on a table
LatestOf(tbl, k) == get_latest_timestamp(tbl, k.symbol, k.exchange, k.timeframe)

\* the latest timestamp `a` is absent, or `b` is present and not before it
NotBefore(a, b) == a = None \/ (b # None /\ TheValue(a) <= TheValue(b))

\* the step is a save_data call, or a clear_data call with its three
\* filters given, for the SeriesKey k
RestrictedTo(k) ==
    \/ call'.op = "save_data" /\ call'.key = k
    \/ /\ call'.op = "clear_data"
       /\ call'.symbol = {k.symbol} /\ call'.exchange = {k.exchange}
       /\ call'.timeframe = {k.timeframe}

\* C39: with no purge in between, get_latest_timestamp of a key never
\* decreases over save_data calls and sync runs, and a save_data or
\* clear_data restricted to one SeriesKey leaves get_latest_timestamp of
\* every other SeriesKey as it was
C39_LatestMonotoneAndFramed ==
    /\ [][call'.op # "clear_data" =>
            \A k \in SeriesKeys : NotBefore(LatestOf(table, k), LatestOf(table', k))]_vars
    /\ [][\A k \in SeriesKeys : RestrictedTo(k) =>
            \A o \in SeriesKeys \ {k} : LatestOf(table', o) = LatestOf(table, o)]_vars

\* a save_data moved the latest timestamp of its key on while another key
\* of the same symbol and exchange holds a newer row
C39_Witness ==
    /\ call.op = "save_data"
    /\ LatestOf(call.before, call.key) = {0}
    /\ LatestOf(table, call.key) = {60000}
    /\ \E o \in SeriesKeys \ {call.key} :
          /\ o.symbol = call.key.symbol /\ o.exchange = call.key.exchange
          /\ LatestOf(table, o) # None
          /\ LatestOf(table, o) # LatestOf(table, call.key)

\* the rows of the range of the get_data call that the call returned
ReturnedOfRange ==
    {r \in InRange(call.start_time, call.end_time) :
        \E i \in 1..Len(call.ret) : call.ret[i] = Selected(r)}

\* C40: get_data with limit n returns the n earliest rows of the selected
\* range, all of them when the range holds fewer, in ascending order: the
\* first min(n, size) elements of the ascending result without a limit
C40_LimitTakesEarliest ==
    (call.op = "get_data" /\ call.limit # None /\ TheValue(call.limit) >= 0) =>
        LET range == InRange(call.start_time, call.end_time)
        IN /\ Len(call.ret) = Min2(TheValue(call.limit), Cardinality(range))
           /\ Cardinality(ReturnedOfRange) = Len(call.ret)
           /\ \A r \in ReturnedOfRange : \A q \in range \ ReturnedOfRange :
                 r.timestamp < q.timestamp
           /\ \A i \in 1..(Len(call.ret) - 1) :
                 TimestampMs(call.ret[i].index) < TimestampMs(call.ret[i + 1].index)

\* a limit of two on a range of three rows: the two earliest came back
C40_Witness ==
    /\ call.op = "get_data" /\ call.limit = {2}
    /\ Cardinality(InRange(call.start_time, call.end_time)) = 3
    /\ Len(call.ret) = 2
    /\ TimestampMs(call.ret[1].index) = 0
    /\ TimestampMs(call.ret[2].index) = 60000

====
